---- MODULE Spec2Model ----
(***************************************************************************)
(* A model of pgdba (jianh619/dba-blooming): the on-disk apply lock        *)
(* (internal/inspect/lock.go), the change-set pipeline                     *)
(* (internal/tuning/apply.go), the switchover commands                     *)
(* (internal/cli/failover.go, internal/cli/replica.go,                     *)
(* internal/failover/precheck.go), the Patroni client                      *)
(* (internal/patroni/client.go), the cluster registry and the snapshot     *)
(* collector (internal/inspect).                                           *)
(*                                                                         *)
(* The specifications that share the module:                               *)
(*   SpecLock      - NumProcs processes calling AcquireLock / ReleaseLock  *)
(*                   on one <baseDir>/<fingerprint>/.lock file;            *)
(*   SpecApply     - one process calling DryRun / Apply / Rollback (and    *)
(*                   the lock functions) on a change-set;                  *)
(*   SpecRoundTrip - Apply followed by Rollback of a recorded change-set;  *)
(*   SpecSwitch    - one invocation of 'failover trigger' or 'replica      *)
(*                   promote' against a Patroni endpoint;                  *)
(*   SpecCluster   - the cluster commands and the registry file;           *)
(*   SpecCollect   - the snapshot collector and the cluster identity;      *)
(*   SpecPatroni   - one call of the Patroni REST client;                  *)
(*   SpecRegistry  - processes reading and saving the registry file.       *)
(***************************************************************************)
EXTENDS Integers, Sequences, FiniteSets, TLC

\* ------------------------------------------------------------------ bounds

\* Number of pgdba processes that share one lock file.
NumProcs == 3

\* Longest change-set (number of parameter changes).
MaxParams == 3

\* Longest member list of a cluster status.
MaxMembers == 3

VARIABLES
    \* --- the apply lock (lock.go)
    dirExists,     \* <baseDir>/<fingerprint> exists
    lockFile,      \* the .lock file: [exists, data]; data is <<>> or <<json doc>>
    lpc,           \* per process: position inside AcquireLock
    lastRet,       \* what the last returned AcquireLock call returned, and to whom
    holders,       \* processes whose AcquireLock returned nil and that have not released, oldest first
    okSinceRelease,\* AcquireLock calls that returned nil since the last ReleaseLock
    crashed,       \* the holder that died without releasing, and whether ReleaseLock was called since it acquired
    \* --- the change-set pipeline (apply.go)
    cs,            \* the caller's ChangeSet
    conf,          \* postgresql.auto.conf: name -> value written by ALTER SYSTEM
    calls,         \* the ApplyDB calls issued so far, in order
    tpc,           \* "idle", "dryrun", "apply", "rollback", "done"
    ti,            \* loop index into cs.Parameters
    needsReload,   \* the local needsReload of Apply / Rollback
    tres,          \* what the operation returned
    \* --- the switchover commands (failover.go, replica.go)
    inv,           \* the command line: command, --force, --candidate, URL resolution
    spc,           \* position of the command
    status,        \* the ClusterStatus decoded from GET /cluster
    requests,      \* HTTP requests sent to Patroni, in order
    out,           \* the envelope written, and the stream
    \* --- the root command and the cluster commands (root.go, baseline.go)
    cli,           \* the command line: command, --format, config, --name, --patroni-url, --confirm
    cpc,           \* position of the invocation
    cerr,          \* the error returned to cobra by PersistentPreRunE / RunE
    registry,      \* the registry file clusters.json
    stdout,        \* what the process has written to stdout, in order
    stderr,        \* what the process has written to stderr, in order
    exitCode,      \* -1 while running, then the exit code
    \* --- Collect (the snapshot collector)
    kcfg,          \* the configHost and configPort arguments
    kpc,           \* position inside Collect
    answers,       \* per database call: "uncalled", "ok" or "error"
    snap,          \* the DiagSnapshot under construction
    kres,          \* what Collect returned: "none", "snapshot" or "error"
    \* --- the Patroni REST client (patroni/client.go)
    hcall,         \* the method called
    hpc,           \* position inside the method
    hresp,         \* what httpClient.Do returned
    hret,          \* what the method returned
    \* --- the registry file under concurrent use (cluster registry: load, save)
    rfile,         \* clusters.json: [exists, data]
    rop,           \* per process: the Registry method it calls
    rpc,           \* per process: position inside the method
    rbuf,          \* per process: the map it is about to save
    rret,          \* per process: what the method returned, and the map it loaded
    rsaved         \* the maps the file was given: the initial one and every map passed to save

lockVars == <<dirExists, lockFile, lpc, lastRet, holders, okSinceRelease, crashed>>
tuneVars == <<cs, conf, calls, tpc, ti, needsReload, tres>>
switchVars == <<inv, spc, status, requests, out>>
cliVars == <<cli, cpc, cerr, registry, stdout, stderr, exitCode>>
collectVars == <<kcfg, kpc, answers, snap, kres>>
patroniVars == <<hcall, hpc, hresp, hret>>
regVars == <<rfile, rop, rpc, rbuf, rret, rsaved>>
restVars == <<patroniVars, regVars>>
vars == <<lockVars, tuneVars, switchVars, cliVars, collectVars, restVars>>

\* What the functions of one part leave alone.
notLockVars == <<tuneVars, switchVars, cliVars, collectVars, restVars>>
notTuneVars == <<lockVars, switchVars, cliVars, collectVars, restVars>>
notSwitchVars == <<lockVars, tuneVars, cliVars, collectVars, restVars>>
notPatroniVars == <<lockVars, tuneVars, switchVars, cliVars, collectVars, regVars>>
notRegVars == <<lockVars, tuneVars, switchVars, cliVars, collectVars, patroniVars>>

\* ================================================================== lock.go

Procs == 1..NumProcs

\* The ApplyLock a process passes to AcquireLock: its own pid, its own
\* change-set, the operation it is about to run and its start time.
ApplyLockOf(p) ==
    [ChangeSetID |-> p, PID |-> 100 * p,
     StartedAt |-> [sec |-> 1000 + p, nsec |-> 500],
     Operation |-> IF p % 2 = 1 THEN "apply" ELSE "rollback"]

NoFile == [exists |-> FALSE, data |-> <<>>]
TruncatedFile == [exists |-> TRUE, data |-> <<>>]
FileWith(doc) == [exists |-> TRUE, data |-> <<doc>>]

\* json.Marshal(lock): the struct under its json tags; time.Time marshals as
\* RFC 3339 with nanoseconds, so the whole instant is kept.
MarshalLock(lock) ==
    [changeset_id |-> lock.ChangeSetID, pid |-> lock.PID,
     started_at |-> lock.StartedAt, operation |-> lock.Operation]

\* json.Unmarshal(data, &lock) on a complete document.
UnmarshalLock(doc) ==
    [ChangeSetID |-> doc.changeset_id, PID |-> doc.pid,
     StartedAt |-> doc.started_at, Operation |-> doc.operation]

\* time.Format(time.RFC3339): seconds precision, the nanoseconds are dropped.
FormatRFC3339(t) == t.sec

NoLock == [ChangeSetID |-> 0, PID |-> 0, StartedAt |-> [sec |-> 0, nsec |-> 0], Operation |-> ""]

\* CheckLock as a function of the file it reads: result "nil" (no lock),
\* "lock" (the holder) or "error" (unreadable content).
CheckLock(file) ==
    IF ~file.exists THEN [result |-> "nil", lock |-> NoLock]
    ELSE IF file.data = <<>> THEN [result |-> "error", lock |-> NoLock]
    ELSE [result |-> "lock", lock |-> UnmarshalLock(file.data[1])]

Ret(p, kind) ==
    [proc |-> p, kind |-> kind, operation |-> "", changeset |-> 0, pid |-> 0, started |-> 0]

\* A contention error that describes the lock being requested instead of
\* the one found.
ContentionErrorOfRequest(p, existing) ==
    [proc |-> p, kind |-> "contention", operation |-> ApplyLockOf(p).Operation,
     changeset |-> ApplyLockOf(p).ChangeSetID, pid |-> ApplyLockOf(p).PID,
     started |-> FormatRFC3339(ApplyLockOf(p).StartedAt)]

\* The contention error of AcquireLock: names the existing lock.
ContentionError(p, existing) ==
    [proc |-> p, kind |-> "contention", operation |-> existing.Operation,
     changeset |-> existing.ChangeSetID, pid |-> existing.PID,
     started |-> FormatRFC3339(existing.StartedAt)]

\* The processes still running.
NoCrash == [proc |-> 0, released |-> FALSE]
Alive(p) == crashed.proc # p

\* p's AcquireLock returned nil after the last ReleaseLock: holders lists
\* the callers oldest first, the last okSinceRelease of them are those.
AcquiredSinceRelease(p) ==
    \E i \in 1..Len(holders) : holders[i] = p /\ i > Len(holders) - okSinceRelease

\* AcquireLock, first half: CheckLock, and the return on an existing or
\* unreadable lock.
AcquireCheck(p) ==
    /\ Alive(p)
    /\ lpc[p] = "idle"
    /\ LET c == CheckLock(IF dirExists THEN lockFile ELSE NoFile) IN
        CASE c.result = "error" ->
                /\ lastRet' = Ret(p, "check_error")
                /\ lpc' = lpc
          [] c.result = "lock" ->
                /\ lastRet' = ContentionError(p, c.lock)
                /\ lpc' = lpc
          [] OTHER ->
                /\ lpc' = [lpc EXCEPT ![p] = "checked"]
                /\ lastRet' = lastRet
    /\ UNCHANGED <<dirExists, lockFile, holders, okSinceRelease, crashed, notLockVars>>

\* os.WriteFile, first half: OpenFile(O_WRONLY|O_CREATE|O_TRUNC). Fails when
\* the directory is missing; otherwise the file exists and is empty.
AcquireOpen(p) ==
    /\ Alive(p)
    /\ lpc[p] = "checked"
    /\ IF ~dirExists
         THEN /\ lastRet' = Ret(p, "write_error")
              /\ lpc' = [lpc EXCEPT ![p] = "idle"]
              /\ lockFile' = lockFile
         ELSE /\ lockFile' = TruncatedFile
              /\ lpc' = [lpc EXCEPT ![p] = "opened"]
              /\ lastRet' = lastRet
    /\ UNCHANGED <<dirExists, holders, okSinceRelease, crashed, notLockVars>>

\* os.WriteFile, second half: Write and Close; AcquireLock returns nil. A
\* descriptor whose file was removed meanwhile ("unlinked") writes to an
\* inode no path names.
AcquireWrite(p) ==
    /\ Alive(p)
    /\ lpc[p] \in {"opened", "unlinked"}
    /\ lockFile' = IF lpc[p] = "opened" THEN FileWith(MarshalLock(ApplyLockOf(p)))
                   ELSE lockFile
    /\ lpc' = [lpc EXCEPT ![p] = "idle"]
    /\ lastRet' = Ret(p, "ok")
    /\ holders' = Append(SelectSeq(holders, LAMBDA h : h # p), p)
    /\ okSinceRelease' = okSinceRelease + 1
    /\ UNCHANGED <<dirExists, crashed, notLockVars>>

\* ReleaseLock: os.Remove; a missing file is not an error.
ReleaseLock(p) ==
    /\ Alive(p)
    /\ lpc[p] = "idle"
    /\ lockFile' = NoFile
    /\ lpc' = [q \in Procs |-> IF lpc[q] = "opened" /\ lockFile.exists
                               THEN "unlinked" ELSE lpc[q]]
    /\ holders' = SelectSeq(holders, LAMBDA h : h # p)
    /\ okSinceRelease' = 0
    /\ crashed' = [crashed EXCEPT !.released = crashed.proc # 0]
    /\ UNCHANGED <<dirExists, lastRet, notLockVars>>

\* A process whose AcquireLock returned nil dies before its ReleaseLock: it
\* takes no further step and the file stays as it is.
Crash(p) ==
    /\ crashed.proc = 0
    /\ lpc[p] = "idle"
    /\ \E i \in 1..Len(holders) : holders[i] = p
    /\ crashed' = [proc |-> p, released |-> ~AcquiredSinceRelease(p)]
    /\ UNCHANGED <<dirExists, lockFile, lpc, lastRet, holders, okSinceRelease, notLockVars>>

LockInit ==
    /\ dirExists \in BOOLEAN
    /\ lockFile = NoFile
    /\ lpc = [p \in Procs |-> "idle"]
    /\ lastRet = Ret(0, "none")
    /\ holders = <<>>
    /\ okSinceRelease = 0
    /\ crashed = NoCrash

LockIdle ==
    /\ dirExists = TRUE
    /\ lockFile = NoFile
    /\ lpc = [p \in Procs |-> "idle"]
    /\ lastRet = Ret(0, "none")
    /\ holders = <<>>
    /\ okSinceRelease = 0
    /\ crashed = NoCrash

\* ================================================================ apply.go

\* Strings the pipeline inspects character by character are sequences of
\* one-character strings.
sEmpty == <<>>
sBlank == <<" ">>
s4MB == <<"4", "M", "B">>
sPadded == <<" ", "4", "M", "B", " ">>
s8MB == <<"8", "M", "B">>
s64MB == <<"6", "4", "M", "B">>
s1GB == <<"1", "G", "B">>

IsSpace(c) == c \in {" ", "\t", "\n", "\r"}

RECURSIVE TrimLeft(_)
TrimLeft(s) ==
    IF s # <<>> /\ IsSpace(Head(s)) THEN TrimLeft(Tail(s)) ELSE s

RECURSIVE TrimRight(_)
TrimRight(s) ==
    IF s # <<>> /\ IsSpace(s[Len(s)]) THEN TrimRight(SubSeq(s, 1, Len(s) - 1)) ELSE s

\* A trim that strips the leading white space only.
TrimLeadingOnly(s) == TrimLeft(s)

\* strings.TrimSpace
TrimSpace(s) == TrimRight(TrimLeft(s))

ParamNames == {"work_mem", "shared_buffers"}

Param(name, old, new, ctx, restart, allowed, override) ==
    [Name |-> name, OldValue |-> old, NewValue |-> new, Context |-> ctx,
     NeedsRestart |-> restart,
     Permission |-> [Allowed |-> allowed, Reason |-> IF allowed THEN "" ELSE "requires superuser"],
     PatroniOverride |-> override]

\* The parameter changes change-sets are built from.
ParamPool ==
    { Param("work_mem", s4MB, s64MB, "user", FALSE, TRUE, "not_managed"),
      Param("work_mem", sEmpty, s8MB, "user", FALSE, TRUE, "overridden"),
      Param("work_mem", sPadded, s64MB, "sighup", TRUE, FALSE, "not_managed"),
      Param("shared_buffers", sBlank, s1GB, "postmaster", FALSE, TRUE, "not_managed"),
      Param("shared_buffers", s4MB, s8MB, "postmaster", TRUE, FALSE, "overridden"),
      Param("shared_buffers", sPadded, s1GB, "sighup", FALSE, TRUE, "overridden") }

SeqsUpTo(S, n) == UNION { [1..k -> S] : k \in 0..n }

ConfUnset == [n \in ParamNames |-> [set |-> FALSE, value |-> <<>>]]

NoErr == [kind |-> "none", name |-> "", value |-> <<>>]
NoDry == [OK |-> TRUE, Warnings |-> <<>>, Errors |-> <<>>]

DBCall(fn, name, value, ok) == [fn |-> fn, name |-> name, value |-> value, ok |-> ok]

\* What a call does to the server's ALTER SYSTEM state (the ApplyDB
\* implementation behind the interface).
DBExec(c, call) ==
    IF call.fn = "AlterSystem" /\ call.ok
        THEN [c EXCEPT ![call.name] = [set |-> TRUE, value |-> call.value]]
    ELSE IF call.fn = "AlterSystemReset" /\ call.ok
        THEN [c EXCEPT ![call.name] = [set |-> FALSE, value |-> <<>>]]
    ELSE c

RECURSIVE DBExecAll(_, _)
DBExecAll(c, cl) ==
    IF cl = <<>> THEN c ELSE DBExecAll(DBExec(c, Head(cl)), Tail(cl))

\* A dry run that probes a parameter by setting it.
DryRunParamBySetting(p, found) ==
    [calls |-> <<DBCall("AlterSystem", p.Name, p.NewValue, found)>>,
     ok |-> found, warnings |-> <<>>, errors |-> <<>>]

\* A dry run that goes on to the other checks after a denied permission.
DryRunParamAllChecks(p, found) ==
    [calls |-> <<DBCall("GetSetting", p.Name, <<>>, found)>>,
     ok |-> p.Permission.Allowed /\ found,
     warnings |->
         (IF p.PatroniOverride = "overridden"
             THEN <<[param |-> p.Name, msg |-> "overridden by Patroni DCS"]>>
             ELSE <<>>)
         \o
         (IF p.NeedsRestart \/ p.Context = "postmaster"
             THEN <<[param |-> p.Name, msg |-> "requires restart"]>>
             ELSE <<>>),
     errors |->
         (IF p.Permission.Allowed THEN <<>>
          ELSE <<[param |-> p.Name, msg |-> "permission denied"]>>)
         \o
         (IF found THEN <<>>
          ELSE <<[param |-> p.Name, msg |-> "setting not found"]>>)]

\* One iteration of DryRun's loop: the ApplyDB calls it makes and what it
\* adds to the result; found is whether GetSetting finds the setting.
DryRunParam(p, found) ==
    IF ~p.Permission.Allowed
        THEN [calls |-> <<>>, ok |-> FALSE, warnings |-> <<>>,
              errors |-> <<[param |-> p.Name, msg |-> "permission denied"]>>]
        ELSE [calls |-> <<DBCall("GetSetting", p.Name, <<>>, found)>>,
              ok |-> found,
              warnings |->
                  (IF p.PatroniOverride = "overridden"
                      THEN <<[param |-> p.Name, msg |-> "overridden by Patroni DCS"]>>
                      ELSE <<>>)
                  \o
                  (IF p.NeedsRestart \/ p.Context = "postmaster"
                      THEN <<[param |-> p.Name, msg |-> "requires restart"]>>
                      ELSE <<>>),
              errors |->
                  IF found THEN <<>>
                  ELSE <<[param |-> p.Name, msg |-> "setting not found"]>>]

\* The statement Apply issues for a parameter.
ApplyCall(p, ok) == DBCall("AlterSystem", p.Name, p.NewValue, ok)

\* An error that names the first parameter of the change-set whichever
\* statement failed.
ApplyErrorNamingFirst(params, i) ==
    [kind |-> "alter", name |-> params[1].Name, value |-> params[1].NewValue]

\* The error Apply returns when that statement fails.
ApplyError(params, i) ==
    [kind |-> "alter", name |-> params[i].Name, value |-> params[i].NewValue]

\* The statement Rollback issues for a parameter.
RollbackCall(p, ok) ==
    LET oldVal == TrimSpace(p.OldValue) IN
    IF oldVal = <<>> THEN DBCall("AlterSystemReset", p.Name, <<>>, ok)
    ELSE DBCall("AlterSystem", p.Name, oldVal, ok)

RollbackError(p) ==
    LET oldVal == TrimSpace(p.OldValue) IN
    IF oldVal = <<>> THEN [kind |-> "reset", name |-> p.Name, value |-> <<>>]
    ELSE [kind |-> "alter", name |-> p.Name, value |-> oldVal]

\* A reload condition that looks at the context alone.
ParamNeedsReloadByContext(p) == p.Context # "postmaster"

\* The reload condition of Apply and Rollback.
ParamNeedsReload(p) == ~p.NeedsRestart /\ p.Context # "postmaster"

\* The process that runs the pipeline.
Worker == 1

\* A call of DryRun, Apply or Rollback begins.
TuneStart(op) ==
    /\ tpc = "idle"
    /\ lpc[Worker] = "idle"
    /\ tpc' = op
    /\ ti' = 1
    /\ needsReload' = FALSE
    /\ tres' = [op |-> op, err |-> NoErr, dry |-> NoDry]
    /\ UNCHANGED <<cs, conf, calls, notTuneVars>>

DryRunStep ==
    /\ tpc = "dryrun"
    /\ ti <= Len(cs.Parameters)
    /\ \E found \in BOOLEAN :
        LET r == DryRunParam(cs.Parameters[ti], found) IN
        /\ calls' = calls \o r.calls
        /\ conf' = DBExecAll(conf, r.calls)
        /\ tres' = [tres EXCEPT !.dry =
                        [OK |-> tres.dry.OK /\ r.ok,
                         Warnings |-> tres.dry.Warnings \o r.warnings,
                         Errors |-> tres.dry.Errors \o r.errors]]
    /\ ti' = ti + 1
    /\ UNCHANGED <<cs, tpc, needsReload, notTuneVars>>

DryRunReturn ==
    /\ tpc = "dryrun"
    /\ ti > Len(cs.Parameters)
    /\ tpc' = "done"
    /\ UNCHANGED <<cs, conf, calls, ti, needsReload, tres, notTuneVars>>

\* One iteration of Apply's loop.
ApplyStep ==
    /\ tpc = "apply"
    /\ ti <= Len(cs.Parameters)
    /\ \E ok \in BOOLEAN :
        LET p == cs.Parameters[ti]
            call == ApplyCall(p, ok) IN
        /\ calls' = Append(calls, call)
        /\ conf' = DBExec(conf, call)
        /\ IF call.ok
             THEN /\ needsReload' = (needsReload \/ ParamNeedsReload(p))
                  /\ ti' = ti + 1
                  /\ UNCHANGED <<tpc, tres>>
             ELSE /\ tres' = [tres EXCEPT !.err = ApplyError(cs.Parameters, ti)]
                  /\ tpc' = "done"
                  /\ UNCHANGED <<ti, needsReload>>
    /\ UNCHANGED <<cs, notTuneVars>>

\* A tail that stamps AppliedAt before it looks at the reload's error.
ApplyTailStampFirst(reload, ok) ==
    IF reload
        THEN [calls |-> <<DBCall("ReloadConf", "", <<>>, ok)>>,
              stamped |-> TRUE,
              err |-> IF ok THEN NoErr ELSE [kind |-> "reload", name |-> "", value |-> <<>>]]
        ELSE [calls |-> <<>>, stamped |-> TRUE, err |-> NoErr]

\* Apply after its loop, as a function of needsReload and of whether
\* ReloadConf succeeds: the call made, whether AppliedAt is set, the error.
ApplyTail(reload, ok) ==
    IF reload
        THEN [calls |-> <<DBCall("ReloadConf", "", <<>>, ok)>>,
              stamped |-> ok,
              err |-> IF ok THEN NoErr ELSE [kind |-> "reload", name |-> "", value |-> <<>>]]
        ELSE [calls |-> <<>>, stamped |-> TRUE, err |-> NoErr]

\* Apply after its loop: the reload, AppliedAt, return.
ApplyFinish ==
    /\ tpc = "apply"
    /\ ti > Len(cs.Parameters)
    /\ \E ok \in BOOLEAN :
        LET r == ApplyTail(needsReload, ok) IN
        /\ needsReload \/ ok
        /\ calls' = calls \o r.calls
        /\ conf' = DBExecAll(conf, r.calls)
        /\ cs' = IF r.stamped THEN [cs EXCEPT !.AppliedAt = "now"] ELSE cs
        /\ tres' = [tres EXCEPT !.err = r.err]
    /\ tpc' = "done"
    /\ UNCHANGED <<ti, needsReload, notTuneVars>>

\* One iteration of Rollback's loop.
RollbackStep ==
    /\ tpc = "rollback"
    /\ ti <= Len(cs.Parameters)
    /\ \E ok \in BOOLEAN :
        LET p == cs.Parameters[ti]
            call == RollbackCall(p, ok) IN
        /\ calls' = Append(calls, call)
        /\ conf' = DBExec(conf, call)
        /\ IF call.ok
             THEN /\ needsReload' = (needsReload \/ ParamNeedsReload(p))
                  /\ ti' = ti + 1
                  /\ UNCHANGED <<tpc, tres>>
             ELSE /\ tres' = [tres EXCEPT !.err = RollbackError(p)]
                  /\ tpc' = "done"
                  /\ UNCHANGED <<ti, needsReload>>
    /\ UNCHANGED <<cs, notTuneVars>>

\* Rollback after its loop, as a function of needsReload and of whether
\* ReloadConf succeeds.
RollbackTail(reload, ok) ==
    IF reload
        THEN [calls |-> <<DBCall("ReloadConf", "", <<>>, ok)>>,
              stamped |-> ok,
              err |-> IF ok THEN NoErr ELSE [kind |-> "reload", name |-> "", value |-> <<>>]]
        ELSE [calls |-> <<>>, stamped |-> TRUE, err |-> NoErr]

\* Rollback after its loop: the reload, RolledBackAt, return.
RollbackFinish ==
    /\ tpc = "rollback"
    /\ ti > Len(cs.Parameters)
    /\ \E ok \in BOOLEAN :
        LET r == RollbackTail(needsReload, ok) IN
        /\ needsReload \/ ok
        /\ calls' = calls \o r.calls
        /\ conf' = DBExecAll(conf, r.calls)
        /\ cs' = IF r.stamped THEN [cs EXCEPT !.RolledBackAt = "now"] ELSE cs
        /\ tres' = [tres EXCEPT !.err = r.err]
    /\ tpc' = "done"
    /\ UNCHANGED <<ti, needsReload, notTuneVars>>

\* The caller invokes Rollback on the change-set Apply has just returned nil
\* for.
RollbackAfterApply ==
    /\ tpc = "done"
    /\ tres.op = "apply"
    /\ tres.err = NoErr
    /\ tpc' = "rollback"
    /\ ti' = 1
    /\ needsReload' = FALSE
    /\ tres' = [op |-> "rollback", err |-> NoErr, dry |-> NoDry]
    /\ UNCHANGED <<cs, conf, calls, notTuneVars>>

\* The value of a setting as a change-set records it: empty when ALTER
\* SYSTEM has set none.
InForce(c, name) == IF c[name].set THEN c[name].value ELSE sEmpty

\* The parameter changes of recorded change-sets.
RecordedPool ==
    { Param(name, old, new,
            IF name = "shared_buffers" THEN "postmaster" ELSE "user",
            name = "shared_buffers", TRUE, "not_managed") :
        name \in ParamNames, old \in {sEmpty, s4MB, s8MB, s64MB}, new \in {s8MB, s64MB} }

RECURSIVE ApplyCalls(_)
ApplyCalls(ps) ==
    IF ps = <<>> THEN <<>> ELSE <<ApplyCall(Head(ps), TRUE)>> \o ApplyCalls(Tail(ps))

\* The change-sets whose every OldValue is the value in force just before
\* that change is applied, starting from configuration c.
RecordedChangeSets(c) ==
    { ps \in SeqsUpTo(RecordedPool, MaxParams) :
        /\ ps # <<>>
        /\ \A i \in 1..Len(ps) :
              ps[i].OldValue =
                 InForce(DBExecAll(c, ApplyCalls(SubSeq(ps, 1, i - 1))), ps[i].Name) }

\* A recorded change-set about to be applied and rolled back.
RoundTripInit ==
    /\ conf \in [ParamNames -> {[set |-> FALSE, value |-> <<>>], [set |-> TRUE, value |-> s4MB]}]
    /\ cs \in [Parameters : RecordedChangeSets(conf),
               AppliedAt : {"nil"}, RolledBackAt : {"nil"}]
    /\ calls = <<>>
    /\ tpc = "idle"
    /\ ti = 0
    /\ needsReload = FALSE
    /\ tres = [op |-> "none", err |-> NoErr, dry |-> NoDry]

TuneInit ==
    /\ cs \in [Parameters : SeqsUpTo(ParamPool, MaxParams),
               AppliedAt : {"nil", "old"}, RolledBackAt : {"nil"}]
    /\ conf = ConfUnset
    /\ calls = <<>>
    /\ tpc = "idle"
    /\ ti = 0
    /\ needsReload = FALSE
    /\ tres = [op |-> "none", err |-> NoErr, dry |-> NoDry]

TuneIdle ==
    /\ cs = [Parameters |-> <<>>, AppliedAt |-> "nil", RolledBackAt |-> "nil"]
    /\ conf = ConfUnset
    /\ calls = <<>>
    /\ tpc = "idle"
    /\ ti = 0
    /\ needsReload = FALSE
    /\ tres = [op |-> "none", err |-> NoErr, dry |-> NoDry]

\* ============================================ precheck.go, patroni/client.go

\* failover.DefaultMaxLagBytes
DefaultMaxLagBytes == 10 * 1024 * 1024

MemberName(i) == <<"pg", i>>
NoName == <<>>
GhostName == <<"pg", 0>>

Member(name, role, state, lag) == [Name |-> name, Role |-> role, State |-> state, Lag |-> lag]

\* What a member of a /cluster response can look like, name aside: a primary
\* (either spelling of the role) reports no lag; a replica reports one.
MemberShapes ==
    { [Role |-> r, State |-> st, Lag |-> 0] :
        r \in {"leader", "master"}, st \in {"running", "stopped"} }
    \cup
    { [Role |-> "replica", State |-> st, Lag |-> l] :
        st \in {"running", "stopped"},
        l \in {0, DefaultMaxLagBytes, DefaultMaxLagBytes + 1} }

MemberLists ==
    UNION { { [i \in 1..k |-> Member(MemberName(i), f[i].Role, f[i].State, f[i].Lag)] :
                f \in [1..k -> MemberShapes] } : k \in 0..MaxMembers }

\* patroni.ClusterStatus as decoded by GetClusterStatus; ok is FALSE when the
\* request or the decoding failed.
ClusterStatuses ==
    { [ok |-> TRUE, Members |-> ms, Pause |-> pz] :
        ms \in MemberLists, pz \in BOOLEAN }

StatusError == [ok |-> FALSE, Members |-> <<>>, Pause |-> FALSE]
NoStatus == StatusError

IsPrimaryRole(role) == role = "leader" \/ role = "master"

\* Index of the first member satisfying Test, 0 when there is none: the
\* "for _, m := range cs.Members { if ... return }" loops.
FirstIndex(ms, Test(_)) ==
    IF \E i \in 1..Len(ms) : Test(ms[i])
        THEN CHOOSE i \in 1..Len(ms) : Test(ms[i]) /\ \A j \in 1..(i - 1) : ~Test(ms[j])
        ELSE 0

\* failover.FindPrimary: [ok, name].
FindPrimary(st) ==
    LET i == FirstIndex(st.Members, LAMBDA m : IsPrimaryRole(m.Role)) IN
    IF i = 0 THEN [ok |-> FALSE, name |-> NoName]
    ELSE [ok |-> TRUE, name |-> st.Members[i].Name]

RECURSIVE BestFrom(_, _, _)
BestFrom(ms, i, best) ==
    IF i > Len(ms) THEN best
    ELSE IF IsPrimaryRole(ms[i].Role) THEN BestFrom(ms, i + 1, best)
    ELSE IF ms[i].State # "running" THEN BestFrom(ms, i + 1, best)
    ELSE IF best = 0 \/ ms[i].Lag < ms[best].Lag THEN BestFrom(ms, i + 1, i)
    ELSE BestFrom(ms, i + 1, best)

\* A selection that, among running replicas of equal smallest lag, keeps the
\* one seen last.
FindBestCandidateLastSeen(st) ==
    LET ms == st.Members
        C == { i \in 1..Len(ms) : ~IsPrimaryRole(ms[i].Role) /\ ms[i].State = "running" }
    IN  IF C = {} THEN [ok |-> FALSE, name |-> NoName]
        ELSE LET best == CHOOSE i \in C : \A j \in C :
                            \/ ms[i].Lag < ms[j].Lag
                            \/ ms[i].Lag = ms[j].Lag /\ i >= j
             IN [ok |-> TRUE, name |-> ms[best].Name]

\* A selection by lag alone, whatever the member's state.
FindBestCandidateAnyState(st) ==
    LET ms == st.Members
        C == { i \in 1..Len(ms) : ~IsPrimaryRole(ms[i].Role) }
    IN  IF C = {} THEN [ok |-> FALSE, name |-> NoName]
        ELSE LET best == CHOOSE i \in C : \A j \in C :
                            \/ ms[i].Lag < ms[j].Lag
                            \/ ms[i].Lag = ms[j].Lag /\ i <= j
             IN [ok |-> TRUE, name |-> ms[best].Name]

\* failover.FindBestCandidate: [ok, name].
FindBestCandidate(st) ==
    LET best == BestFrom(st.Members, 1, 0) IN
    IF best = 0 THEN [ok |-> FALSE, name |-> NoName]
    ELSE [ok |-> TRUE, name |-> st.Members[best].Name]

\* A validation that never looks at the candidate's lag.
validateCandidateNoLag(st, candidate, maxLagBytes) ==
    LET i == FirstIndex(st.Members, LAMBDA m : m.Name = candidate) IN
    IF i = 0 THEN "candidate not found in cluster"
    ELSE IF IsPrimaryRole(st.Members[i].Role) THEN "candidate is already the primary"
    ELSE IF st.Members[i].State # "running" THEN "candidate is not running"
    ELSE ""

\* failover.validateCandidate: "" for nil, else the error.
validateCandidate(st, candidate, maxLagBytes) ==
    LET i == FirstIndex(st.Members, LAMBDA m : m.Name = candidate) IN
    IF i = 0 THEN "candidate not found in cluster"
    ELSE IF IsPrimaryRole(st.Members[i].Role) THEN "candidate is already the primary"
    ELSE IF st.Members[i].State # "running" THEN "candidate is not running"
    ELSE IF st.Members[i].Lag > maxLagBytes THEN "candidate replication lag exceeds threshold"
    ELSE ""

\* A pre-check that refuses a candidate whose lag equals the threshold.
CheckSwitchoverBelowThreshold(st, candidate, maxLagBytes) ==
    IF ~FindPrimary(st).ok THEN "switchover pre-check: no primary found in cluster"
    ELSE IF candidate # NoName THEN validateCandidate(st, candidate, maxLagBytes - 1)
    ELSE IF \E i \in 1..Len(st.Members) :
                ~IsPrimaryRole(st.Members[i].Role) /\ st.Members[i].State = "running"
        THEN ""
    ELSE "switchover pre-check: no running replicas available"

\* failover.CheckSwitchover: "" for nil, else the error.
CheckSwitchover(st, candidate, maxLagBytes) ==
    IF ~FindPrimary(st).ok THEN "switchover pre-check: no primary found in cluster"
    ELSE IF candidate # NoName THEN validateCandidate(st, candidate, maxLagBytes)
    ELSE IF \E i \in 1..Len(st.Members) :
                ~IsPrimaryRole(st.Members[i].Role) /\ st.Members[i].State = "running"
        THEN ""
    ELSE "switchover pre-check: no running replicas available"

\* ================================================== failover.go, replica.go

Request(method, path, leader, candidate) ==
    [method |-> method, path |-> path, leader |-> leader, candidate |-> candidate]

NoOutput ==
    [stream |-> "none", success |-> FALSE, command |-> "", error |-> "",
     from |-> NoName, to |-> NoName]

\* writeFailure: the failure envelope, on stderr.
writeFailure(command, err) ==
    [stream |-> "stderr", success |-> FALSE, command |-> command, error |-> err,
     from |-> NoName, to |-> NoName]

\* output.Success written to stdout.
writeSuccess(command, from, to) ==
    [stream |-> "stdout", success |-> TRUE, command |-> command, error |-> "",
     from |-> from, to |-> to]

Invocations ==
    { [cmd |-> c, force |-> f, candidate |-> cand, urlOK |-> u] :
        c \in {"failover trigger", "replica promote"},
        f \in BOOLEAN,
        cand \in {NoName, GhostName} \cup { MemberName(i) : i \in 1..MaxMembers },
        u \in BOOLEAN }

Fail(command, err) ==
    /\ out' = writeFailure(command, err)
    /\ spc' = "done"

\* A 'failover trigger' whose --force path posts without looking at the
\* candidate.
FailoverTriggerStartUnvalidated ==
    /\ spc = "start"
    /\ inv.cmd = "failover trigger"
    /\ IF ~inv.urlOK
         THEN Fail(inv.cmd, "either --name or --patroni-url must be provided") /\ requests' = requests
       ELSE IF inv.force
         THEN /\ requests' = Append(requests, Request("POST", "/failover", NoName, inv.candidate))
              /\ spc' = "await_failover"
              /\ out' = out
       ELSE /\ requests' = Append(requests, Request("GET", "/cluster", NoName, NoName))
            /\ spc' = "await_status"
            /\ out' = out
    /\ UNCHANGED <<inv, status, notSwitchVars>>

\* 'failover trigger' up to its first HTTP request: resolvePatroniURL, then
\* runForcedFailover (--force) or the GET /cluster of runSwitchover.
FailoverTriggerStart ==
    /\ spc = "start"
    /\ inv.cmd = "failover trigger"
    /\ IF ~inv.urlOK
         THEN Fail(inv.cmd, "either --name or --patroni-url must be provided") /\ requests' = requests
       ELSE IF inv.force /\ inv.candidate = NoName
         THEN Fail(inv.cmd, "--candidate is required when using --force") /\ requests' = requests
       ELSE IF inv.force
         THEN /\ requests' = Append(requests, Request("POST", "/failover", NoName, inv.candidate))
              /\ spc' = "await_failover"
              /\ out' = out
       ELSE /\ requests' = Append(requests, Request("GET", "/cluster", NoName, NoName))
            /\ spc' = "await_status"
            /\ out' = out
    /\ UNCHANGED <<inv, status, notSwitchVars>>

\* 'replica promote' up to its GET /cluster.
ReplicaPromoteStart ==
    /\ spc = "start"
    /\ inv.cmd = "replica promote"
    /\ IF inv.candidate = NoName
         THEN Fail(inv.cmd, "--candidate is required") /\ requests' = requests
       ELSE IF ~inv.urlOK
         THEN Fail(inv.cmd, "either --name or --patroni-url must be provided") /\ requests' = requests
       ELSE /\ requests' = Append(requests, Request("GET", "/cluster", NoName, NoName))
            /\ spc' = "await_status"
            /\ out' = out
    /\ UNCHANGED <<inv, status, notSwitchVars>>

\* runSwitchover from the answer to GET /cluster up to POST /switchover.
RunSwitchover ==
    /\ spc = "await_status"
    /\ inv.cmd = "failover trigger"
    /\ \E st \in ClusterStatuses \cup {StatusError} :
        /\ status' = st
        /\ LET check == CheckSwitchover(st, inv.candidate, DefaultMaxLagBytes)
               primary == FindPrimary(st)
               best == FindBestCandidate(st)
               target == IF inv.candidate = NoName THEN best.name ELSE inv.candidate
           IN
           IF ~st.ok THEN Fail(inv.cmd, "get cluster status") /\ requests' = requests
           ELSE IF check # "" THEN Fail(inv.cmd, check) /\ requests' = requests
           ELSE IF ~primary.ok THEN Fail(inv.cmd, "no primary found in cluster") /\ requests' = requests
           ELSE IF inv.candidate = NoName /\ ~best.ok
               THEN Fail(inv.cmd, "no running replica found for promotion") /\ requests' = requests
           ELSE /\ requests' = Append(requests, Request("POST", "/switchover", primary.name, target))
                /\ spc' = "await_switchover"
                /\ out' = out
    /\ UNCHANGED <<inv, notSwitchVars>>

\* 'replica promote' from the answer to GET /cluster up to POST /switchover.
ReplicaPromote ==
    /\ spc = "await_status"
    /\ inv.cmd = "replica promote"
    /\ \E st \in ClusterStatuses \cup {StatusError} :
        /\ status' = st
        /\ LET check == CheckSwitchover(st, inv.candidate, DefaultMaxLagBytes)
               primary == FindPrimary(st)
           IN
           IF ~st.ok THEN Fail(inv.cmd, "get cluster status") /\ requests' = requests
           ELSE IF check # "" THEN Fail(inv.cmd, check) /\ requests' = requests
           ELSE IF ~primary.ok THEN Fail(inv.cmd, "no primary found in cluster") /\ requests' = requests
           ELSE /\ requests' = Append(requests, Request("POST", "/switchover", primary.name, inv.candidate))
                /\ spc' = "await_switchover"
                /\ out' = out
    /\ UNCHANGED <<inv, notSwitchVars>>

\* The answer to the POST: postJSON's 2xx check, then the envelope.
PostReply ==
    /\ spc \in {"await_switchover", "await_failover"}
    /\ \E ok \in BOOLEAN :
        LET req == requests[Len(requests)] IN
        out' = IF ~ok
                 THEN writeFailure(inv.cmd, IF spc = "await_failover"
                                              THEN "forced failover failed"
                                              ELSE "switchover failed")
                 ELSE writeSuccess(inv.cmd, req.leader, req.candidate)
    /\ spc' = "done"
    /\ UNCHANGED <<inv, status, requests, notSwitchVars>>

SwitchInit ==
    /\ inv \in { i \in Invocations : i.cmd = "replica promote" => ~i.force }
    /\ spc = "start"
    /\ status = NoStatus
    /\ requests = <<>>
    /\ out = NoOutput

SwitchIdle ==
    /\ inv = [cmd |-> "", force |-> FALSE, candidate |-> NoName, urlOK |-> FALSE]
    /\ spc = "idle"
    /\ status = NoStatus
    /\ requests = <<>>
    /\ out = NoOutput

\* ===================================== root.go, baseline.go, cluster registry

\* Names a registry record can have; the empty string is an omitted --name.
ClusterNames == {"ext", "mgd"}
NoCluster == ""

\* output.Format values accepted by PersistentPreRunE, and one that is not.
\* The accepted formats take the same path through every command.
ValidFormats == {"json", "yaml", "table"}
Formats == {"json", "xml"}

CliError(text, arg) == [text |-> text, arg |-> arg]
NoCliError == CliError("", NoCluster)

\* cluster.Registry's file: missing, readable ("ok") or unreadable/unparsable
\* ("corrupt"); entries maps a name to its record's source, "none" when the
\* name has no record.
NoEntries == [n \in ClusterNames |-> "none"]

RegistryFiles ==
    { [state |-> "missing", entries |-> NoEntries],
      [state |-> "corrupt", entries |-> NoEntries] }
    \cup
    { [state |-> "ok", entries |-> e] :
        e \in [ClusterNames -> {"none", "managed", "external"}] }

\* Registry.load: a missing file is an empty map.
RegistryLoad(file) ==
    IF file.state = "corrupt" THEN [ok |-> FALSE, entries |-> NoEntries]
    ELSE [ok |-> TRUE, entries |-> file.entries]

\* Registry.Get: [err, source].
RegistryGet(file, name) ==
    LET l == RegistryLoad(file) IN
    IF ~l.ok THEN [err |-> CliError("parse registry", NoCluster), source |-> "none"]
    ELSE IF name \notin ClusterNames \/ l.entries[name] = "none"
        THEN [err |-> CliError("cluster not found in registry", name), source |-> "none"]
    ELSE [err |-> NoCliError, source |-> l.entries[name]]

\* Registry.Remove: [err, file]; saveOK is whether os.WriteFile succeeds.
RegistryRemove(file, name, saveOK) ==
    LET l == RegistryLoad(file) IN
    IF ~l.ok THEN [err |-> CliError("parse registry", NoCluster), file |-> file]
    ELSE IF name \notin ClusterNames \/ l.entries[name] = "none"
        THEN [err |-> CliError("cluster not found in registry", name), file |-> file]
    ELSE IF ~saveOK THEN [err |-> CliError("write registry", NoCluster), file |-> file]
    ELSE [err |-> NoCliError,
          file |-> [state |-> "ok", entries |-> [l.entries EXCEPT ![name] = "none"]]]

\* resolvePatroniURL: [err]; the URL itself plays no part.
resolvePatroniURL(name, urlGiven, file) ==
    IF urlGiven THEN NoCliError
    ELSE IF name = NoCluster THEN CliError("either --name or --patroni-url must be provided", NoCluster)
    ELSE IF RegistryGet(file, name).err # NoCliError
        THEN CliError("cluster not found in registry", name)
    ELSE NoCliError

\* ClusterStatusResult, and the payload of 'cluster destroy'.
NoData ==
    [cluster |-> NoCluster, primary |-> NoName, replica_count |-> 0,
     healthy |-> FALSE, status |-> ""]

RECURSIVE StatusLoop(_, _, _)
StatusLoop(ms, i, result) ==
    IF i > Len(ms) THEN result
    ELSE LET m == ms[i]
             r1 == IF m.Role = "master" \/ m.Role = "primary"
                     THEN [result EXCEPT !.primary = m.Name]
                     ELSE [result EXCEPT !.replica_count = @ + 1]
             r2 == IF m.State # "running" THEN [r1 EXCEPT !.healthy = FALSE] ELSE r1
         IN StatusLoop(ms, i + 1, r2)

\* buildStatusResult
buildStatusResult(name, st) ==
    StatusLoop(st.Members, 1,
               [cluster |-> name, primary |-> NoName, replica_count |-> 0,
                healthy |-> TRUE, status |-> ""])

\* failover.ListReplicas
ListReplicas(st) == SelectSeq(st.Members, LAMBDA m : ~IsPrimaryRole(m.Role))

\* What is written to a stream: an envelope, or a line of cobra's.
Envelope(success, command, err, data) ==
    [kind |-> "envelope", success |-> success, command |-> command,
     error |-> err, data |-> data]

CobraText(kind, err) ==
    [kind |-> kind, success |-> FALSE, command |-> "", error |-> err, data |-> NoData]

CliInvocations ==
    { [cmd |-> c, format |-> f, cfgOK |-> g, name |-> n, urlGiven |-> u, confirm |-> k] :
        c \in {"cluster status", "cluster destroy"},
        f \in Formats, g \in BOOLEAN,
        n \in ClusterNames \cup {NoCluster},
        u \in BOOLEAN, k \in BOOLEAN }

\* writeFailure: the failure envelope goes to stderr and the error is
\* returned to cobra.
FailWith(command, err) ==
    /\ stderr' = Append(stderr, Envelope(FALSE, command, err, NoData))
    /\ cerr' = err
    /\ cpc' = "returned"
    /\ stdout' = stdout

\* output.Success, FormatResponse and Fprintln(cmd.OutOrStdout()); the
\* handler returns nil.
SucceedWith(command, data) ==
    /\ stdout' = Append(stdout, Envelope(TRUE, command, NoCliError, data))
    /\ cerr' = NoCliError
    /\ cpc' = "returned"
    /\ stderr' = stderr

\* The root command's PersistentPreRunE: the format check and config.Load.
\* Its errors are returned to cobra as they are.
PersistentPreRun ==
    /\ cpc = "start"
    /\ IF cli.format \notin ValidFormats
         THEN cerr' = CliError("invalid format", NoCluster) /\ cpc' = "returned"
       ELSE IF ~cli.cfgOK
         THEN cerr' = CliError("load config", NoCluster) /\ cpc' = "returned"
       ELSE cerr' = cerr /\ cpc' = "run"
    /\ UNCHANGED <<cli, registry, stdout, stderr, exitCode, lockVars, tuneVars, switchVars, collectVars, restVars>>

\* 'cluster status' up to its GET /cluster.
ClusterStatusStart ==
    /\ cpc = "run"
    /\ cli.cmd = "cluster status"
    /\ LET url == resolvePatroniURL(cli.name, cli.urlGiven, registry) IN
       IF url # NoCliError
         THEN FailWith("cluster status", url) /\ requests' = requests
         ELSE /\ requests' = Append(requests, Request("GET", "/cluster", NoName, NoName))
              /\ cpc' = "await_status"
              /\ UNCHANGED <<cerr, stdout, stderr>>
    /\ UNCHANGED <<cli, registry, exitCode, inv, spc, status, out, lockVars, tuneVars, collectVars, restVars>>

\* The decoded statuses 'cluster status' is run against: those whose members
\* report no lag (the computation copies the lag and never reads it).
DisplayedStatuses ==
    { st \in ClusterStatuses : \A i \in 1..Len(st.Members) : st.Members[i].Lag = 0 }

\* 'cluster status' from the answer to GET /cluster to its envelope.
ClusterStatusReply ==
    /\ cpc = "await_status"
    /\ \E st \in DisplayedStatuses \cup {StatusError} :
        /\ status' = st
        /\ IF ~st.ok
             THEN FailWith("cluster status", CliError("get cluster status", NoCluster))
             ELSE SucceedWith("cluster status", buildStatusResult(cli.name, st))
    /\ UNCHANGED <<cli, registry, exitCode, inv, spc, requests, out, lockVars, tuneVars, collectVars, restVars>>

\* A 'cluster destroy' that does not look at the record's source.
ClusterDestroyAnySource ==
    /\ cpc = "run"
    /\ cli.cmd = "cluster destroy"
    /\ \E saveOK \in BOOLEAN :
        LET entry == RegistryGet(registry, cli.name)
            removed == RegistryRemove(registry, cli.name, saveOK)
        IN
        IF ~cli.confirm
          THEN /\ FailWith("cluster destroy", CliError("--confirm flag is required to destroy a cluster", NoCluster))
               /\ registry' = registry
        ELSE IF entry.err # NoCliError
          THEN FailWith("cluster destroy", entry.err) /\ registry' = registry
        ELSE IF removed.err # NoCliError
          THEN FailWith("cluster destroy", removed.err) /\ registry' = registry
        ELSE /\ registry' = removed.file
             /\ SucceedWith("cluster destroy",
                            [NoData EXCEPT !.cluster = cli.name, !.status = "destroyed"])
    /\ UNCHANGED <<cli, exitCode, lockVars, tuneVars, switchVars, collectVars, restVars>>

\* 'cluster destroy': the whole handler.
ClusterDestroy ==
    /\ cpc = "run"
    /\ cli.cmd = "cluster destroy"
    /\ \E saveOK \in BOOLEAN :
        LET entry == RegistryGet(registry, cli.name)
            removed == RegistryRemove(registry, cli.name, saveOK)
        IN
        IF ~cli.confirm
          THEN /\ FailWith("cluster destroy", CliError("--confirm flag is required to destroy a cluster", NoCluster))
               /\ registry' = registry
        ELSE IF entry.err # NoCliError
          THEN FailWith("cluster destroy", entry.err) /\ registry' = registry
        ELSE IF entry.source = "external"
          THEN /\ FailWith("cluster destroy",
                           CliError("cluster was connected with 'cluster connect' and is not managed by pgdba; refusing to destroy", cli.name))
               /\ registry' = registry
        ELSE IF removed.err # NoCliError
          THEN FailWith("cluster destroy", removed.err) /\ registry' = registry
        ELSE /\ registry' = removed.file
             /\ SucceedWith("cluster destroy",
                            [NoData EXCEPT !.cluster = cli.name, !.status = "destroyed"])
    /\ UNCHANGED <<cli, exitCode, lockVars, tuneVars, switchVars, collectVars, restVars>>

\* cobra's Execute after the handlers returned, and cli.Execute: the command
\* tree sets neither SilenceErrors nor SilenceUsage, so a returned error is
\* printed as "Error: ..." followed by the usage text, both on stderr; the
\* process exits with 1 on an error and with 0 otherwise.
Execute ==
    /\ cpc = "returned"
    /\ IF cerr # NoCliError
         THEN /\ stderr' = stderr \o <<CobraText("error_line", cerr), CobraText("usage", NoCliError)>>
              /\ exitCode' = 1
         ELSE /\ stderr' = stderr
              /\ exitCode' = 0
    /\ cpc' = "exited"
    /\ UNCHANGED <<cli, cerr, registry, stdout, lockVars, tuneVars, switchVars, collectVars, restVars>>

CliInit ==
    /\ cli \in CliInvocations
    /\ cpc = "start"
    /\ cerr = NoCliError
    /\ registry \in RegistryFiles
    /\ stdout = <<>>
    /\ stderr = <<>>
    /\ exitCode = -1

CliIdle ==
    /\ cli = [cmd |-> "", format |-> "json", cfgOK |-> TRUE, name |-> NoCluster,
              urlGiven |-> FALSE, confirm |-> FALSE]
    /\ cpc = "idle"
    /\ cerr = NoCliError
    /\ registry = [state |-> "missing", entries |-> NoEntries]
    /\ stdout = <<>>
    /\ stderr = <<>>
    /\ exitCode = -1

\* ============================================ identity and Collect (inspect)

\* IdentityTier
TierSystemIdentifier == 0
TierResolvedAddr == 1
TierConfigAddr == 2

\* fmt's %d of a non-negative integer: its decimal digits.
Digit(d) == <<"0", "1", "2", "3", "4", "5", "6", "7", "8", "9">>[d + 1]

RECURSIVE FormatInt(_)
FormatInt(n) ==
    IF n < 10 THEN <<Digit(n)>>
    ELSE FormatInt(n \div 10) \o <<Digit(n % 10)>>

\* sha256.Sum256 rendered with %x, taken as collision-free: the digest stands
\* for the bytes hashed, and is never the empty string.
Sha256Hex(input) == [sha256 |-> input]
NoFingerprint == [sha256 |-> <<>>]

\* A fingerprint whose tier-1 input takes the configured port.
ComputeFingerprintConfigPort(id) ==
    Sha256Hex(
        IF id.Tier = TierSystemIdentifier
            THEN <<"t", "0", ":">> \o id.SystemIdentifier
        ELSE IF id.Tier = TierResolvedAddr
            THEN <<"t", "1", ":">> \o id.ResolvedAddr \o <<":">> \o FormatInt(id.ConfigPort)
                    \o <<":">> \o FormatInt(id.DatID)
        ELSE IF id.Tier = TierConfigAddr
            THEN <<"t", "2", ":">> \o id.ConfigHost \o <<":">> \o FormatInt(id.ConfigPort)
        ELSE <<"t", "?", ":">> \o id.ConfigHost \o <<":">> \o FormatInt(id.ConfigPort))

\* ClusterIdentity.ComputeFingerprint: the value stored in id.Fingerprint.
ComputeFingerprint(id) ==
    Sha256Hex(
        IF id.Tier = TierSystemIdentifier
            THEN <<"t", "0", ":">> \o id.SystemIdentifier
        ELSE IF id.Tier = TierResolvedAddr
            THEN <<"t", "1", ":">> \o id.ResolvedAddr \o <<":">> \o FormatInt(id.ResolvedPort)
                    \o <<":">> \o FormatInt(id.DatID)
        ELSE IF id.Tier = TierConfigAddr
            THEN <<"t", "2", ":">> \o id.ConfigHost \o <<":">> \o FormatInt(id.ConfigPort)
        ELSE <<"t", "?", ":">> \o id.ConfigHost \o <<":">> \o FormatInt(id.ConfigPort))

\* The zero ClusterIdentity.
NoIdentity ==
    [Tier |-> TierSystemIdentifier, SystemIdentifier |-> <<>>, ResolvedAddr |-> <<>>,
     ResolvedPort |-> 0, ConfigHost |-> <<>>, ConfigPort |-> 0, DatID |-> 0,
     ServerVersionNum |-> 0, Fingerprint |-> NoFingerprint]

\* What the identity queries can answer. ok is FALSE when the query failed.
AddrAnswers ==
    { [ok |-> FALSE, addr |-> <<>>, port |-> 0],
      [ok |-> TRUE, addr |-> <<>>, port |-> 0],
      [ok |-> TRUE, addr |-> <<"h">>, port |-> 5432],
      [ok |-> TRUE, addr |-> <<"h">>, port |-> 5433] }

DatIDAnswers == { [ok |-> FALSE, id |-> 0], [ok |-> TRUE, id |-> 16384] }

SysIDAnswers ==
    { [ok |-> FALSE, id |-> <<>>], [ok |-> TRUE, id |-> <<>>], [ok |-> TRUE, id |-> <<"7">>] }

\* An identity that prefers the resolved address to the system identifier.
buildIdentityAddrFirst(version, configHost, configPort, addr, datid, sysid) ==
    LET id0 == [NoIdentity EXCEPT !.ServerVersionNum = version,
                                  !.ConfigHost = configHost, !.ConfigPort = configPort]
        id1 == IF addr.ok /\ addr.addr # <<>>
                 THEN [id0 EXCEPT !.ResolvedAddr = addr.addr, !.ResolvedPort = addr.port]
                 ELSE id0
        id2 == IF datid.ok THEN [id1 EXCEPT !.DatID = datid.id] ELSE id1
        id3 == IF version >= 130000 /\ sysid.ok /\ sysid.id # <<>>
                 THEN [id2 EXCEPT !.SystemIdentifier = sysid.id]
                 ELSE id2
    IN  IF id3.ResolvedAddr # <<>> THEN [id3 EXCEPT !.Tier = TierResolvedAddr]
        ELSE IF id3.SystemIdentifier # <<>> THEN [id3 EXCEPT !.Tier = TierSystemIdentifier]
        ELSE [id3 EXCEPT !.Tier = TierConfigAddr]

\* buildIdentity; sysid is consulted only for version >= 130000.
buildIdentity(version, configHost, configPort, addr, datid, sysid) ==
    LET id0 == [NoIdentity EXCEPT !.ServerVersionNum = version,
                                  !.ConfigHost = configHost, !.ConfigPort = configPort]
        id1 == IF addr.ok /\ addr.addr # <<>>
                 THEN [id0 EXCEPT !.ResolvedAddr = addr.addr, !.ResolvedPort = addr.port]
                 ELSE id0
        id2 == IF datid.ok THEN [id1 EXCEPT !.DatID = datid.id] ELSE id1
    IN  IF version >= 130000 /\ sysid.ok /\ sysid.id # <<>>
            THEN [id2 EXCEPT !.SystemIdentifier = sysid.id, !.Tier = TierSystemIdentifier]
        ELSE IF id2.ResolvedAddr # <<>> THEN [id2 EXCEPT !.Tier = TierResolvedAddr]
        ELSE [id2 EXCEPT !.Tier = TierConfigAddr]

\* SectionResult; present is FALSE for a name the Sections map does not hold.
SectionNames ==
    {"prereqs", "pg_settings", "pg_stat_activity", "pg_stat_statements",
     "pg_stat_bgwriter", "pg_stat_wal"}

NoSection == [present |-> FALSE, Available |-> FALSE, Error |-> "", Data |-> ""]
SectionAvailable(data) == [present |-> TRUE, Available |-> TRUE, Error |-> "", Data |-> data]
SectionUnavailable(err) == [present |-> TRUE, Available |-> FALSE, Error |-> err, Data |-> ""]

\* The answer of a section query: rows, or err.Error().
QueryAnswer(name, ok) ==
    IF ok THEN [ok |-> TRUE, err |-> "", data |-> name]
    ELSE [ok |-> FALSE, err |-> name, data |-> ""]

PrereqResult(name, available, version, err) ==
    [Name |-> name, Available |-> available, Version |-> version, Error |-> err]

\* collectPrereqs: ext is the answer of ExtensionLoaded ("loaded", "absent" or
\* "error"), sysidOK that of the second SystemIdentifier call.
collectPrereqs(version, ext, sysidOK) ==
    << PrereqResult("pg_stat_statements", ext = "loaded", version,
                    IF ext = "error" THEN "ExtensionLoaded" ELSE ""),
       IF version >= 130000
         THEN PrereqResult("pg_control_system", sysidOK, version,
                           IF sysidOK THEN "" ELSE "SystemIdentifier")
         ELSE PrereqResult("pg_control_system", FALSE, version, "requires PostgreSQL 13+"),
       IF version >= 140000
         THEN PrereqResult("pg_stat_wal", TRUE, version, "")
         ELSE PrereqResult("pg_stat_wal", FALSE, version, "requires PostgreSQL 14+") >>

\* A collector that leaves the section out when its query fails.
collectSectionOrNothing(ans) ==
    IF ~ans.ok THEN NoSection ELSE SectionAvailable(ans.data)

\* collectPGSettings, collectPGStatActivity, collectStatBGWriter: the section
\* written for the query's answer.
collectSection(ans) ==
    IF ~ans.ok THEN SectionUnavailable(ans.err) ELSE SectionAvailable(ans.data)

\* The pg_stat_statements prerequisite as collectPGStatStatements reads it.
PGSSAvailable(prereqs) ==
    \E i \in 1..Len(prereqs) :
        /\ prereqs[i].Name = "pg_stat_statements"
        /\ \A j \in 1..(i - 1) : prereqs[j].Name # "pg_stat_statements"
        /\ prereqs[i].Available

Calls ==
    {"ServerVersionNum", "ResolvedAddr", "CurrentDatID", "SystemIdentifier",
     "ExtensionLoaded", "SystemIdentifierProbe", "PGSettings", "PGStatActivity",
     "PGStatStatements", "StatBGWriter", "StatWal"}

Outcome(ok) == IF ok THEN "ok" ELSE "error"

\* server_version_num of the releases the collector gates on.
Versions == {120000, 130000, 140000}

NoSnapshot == [Identity |-> NoIdentity, Prereqs |-> <<>>, Sections |-> [s \in SectionNames |-> NoSection]]

\* Collect, steps 1 and 2: the version read (fatal when it fails), then
\* buildIdentity and ComputeFingerprint.
CollectIdentity ==
    /\ kpc = "start"
    /\ \E version \in Versions, verOK \in BOOLEAN,
          addr \in AddrAnswers, datid \in DatIDAnswers, sysid \in SysIDAnswers :
        IF ~verOK
          THEN /\ addr = [ok |-> FALSE, addr |-> <<>>, port |-> 0]
               /\ datid = [ok |-> FALSE, id |-> 0]
               /\ sysid = [ok |-> FALSE, id |-> <<>>]
               /\ answers' = [answers EXCEPT !["ServerVersionNum"] = "error"]
               /\ kres' = "error"
               /\ kpc' = "done"
               /\ snap' = snap
          ELSE /\ version < 130000 => sysid = [ok |-> FALSE, id |-> <<>>]
               /\ LET identity == buildIdentity(version, kcfg.host, kcfg.port, addr, datid, sysid) IN
                  snap' = [snap EXCEPT !.Identity =
                              [identity EXCEPT !.Fingerprint = ComputeFingerprint(identity)]]
               /\ answers' = [answers EXCEPT
                                !["ServerVersionNum"] = "ok",
                                !["ResolvedAddr"] = Outcome(addr.ok),
                                !["CurrentDatID"] = Outcome(datid.ok),
                                !["SystemIdentifier"] =
                                    IF version >= 130000 THEN Outcome(sysid.ok) ELSE "uncalled"]
               /\ kres' = kres
               /\ kpc' = "prereqs"
    /\ UNCHANGED <<kcfg, lockVars, tuneVars, switchVars, cliVars, restVars>>

\* A collection that gives up when the extension probe fails.
CollectPrereqsFatal ==
    /\ kpc = "prereqs"
    /\ \E ext \in {"loaded", "absent", "error"}, sysidOK \in BOOLEAN :
        LET version == snap.Identity.ServerVersionNum IN
        /\ version < 130000 => sysidOK = FALSE
        /\ answers' = [answers EXCEPT
                         !["ExtensionLoaded"] = IF ext = "error" THEN "error" ELSE "ok",
                         !["SystemIdentifierProbe"] =
                             IF version >= 130000 THEN Outcome(sysidOK) ELSE "uncalled"]
        /\ IF ext = "error"
             THEN snap' = snap /\ kres' = "error" /\ kpc' = "done"
             ELSE /\ snap' = [snap EXCEPT !.Prereqs = collectPrereqs(version, ext, sysidOK),
                                          !.Sections["prereqs"] = SectionAvailable("prereqs")]
                  /\ kres' = kres
                  /\ kpc' = "pg_settings"
    /\ UNCHANGED <<kcfg, lockVars, tuneVars, switchVars, cliVars, restVars>>

\* Collect, step 3: collectPrereqs and the prereqs section.
CollectPrereqs ==
    /\ kpc = "prereqs"
    /\ \E ext \in {"loaded", "absent", "error"}, sysidOK \in BOOLEAN :
        LET version == snap.Identity.ServerVersionNum IN
        /\ version < 130000 => sysidOK = FALSE
        /\ answers' = [answers EXCEPT
                         !["ExtensionLoaded"] = IF ext = "error" THEN "error" ELSE "ok",
                         !["SystemIdentifierProbe"] =
                             IF version >= 130000 THEN Outcome(sysidOK) ELSE "uncalled"]
        /\ snap' = [snap EXCEPT !.Prereqs = collectPrereqs(version, ext, sysidOK),
                                !.Sections["prereqs"] = SectionAvailable("prereqs")]
    /\ kpc' = "pg_settings"
    /\ UNCHANGED <<kcfg, kres, lockVars, tuneVars, switchVars, cliVars, restVars>>

\* collectPGSettings
CollectPGSettings ==
    /\ kpc = "pg_settings"
    /\ \E ok \in BOOLEAN :
        /\ answers' = [answers EXCEPT !["PGSettings"] = Outcome(ok)]
        /\ snap' = [snap EXCEPT !.Sections["pg_settings"] =
                                    collectSection(QueryAnswer("PGSettings", ok))]
    /\ kpc' = "pg_stat_activity"
    /\ UNCHANGED <<kcfg, kres, lockVars, tuneVars, switchVars, cliVars, restVars>>

\* collectPGStatActivity
CollectPGStatActivity ==
    /\ kpc = "pg_stat_activity"
    /\ \E ok \in BOOLEAN :
        /\ answers' = [answers EXCEPT !["PGStatActivity"] = Outcome(ok)]
        /\ snap' = [snap EXCEPT !.Sections["pg_stat_activity"] =
                                    collectSection(QueryAnswer("PGStatActivity", ok))]
    /\ kpc' = "pg_stat_statements"
    /\ UNCHANGED <<kcfg, kres, lockVars, tuneVars, switchVars, cliVars, restVars>>

\* collectPGStatStatements: the query is sent only when the prerequisite is
\* available.
CollectPGStatStatements ==
    /\ kpc = "pg_stat_statements"
    /\ IF ~PGSSAvailable(snap.Prereqs)
         THEN /\ snap' = [snap EXCEPT !.Sections["pg_stat_statements"] =
                             SectionUnavailable("pg_stat_statements extension not loaded")]
              /\ answers' = answers
         ELSE \E ok \in BOOLEAN :
                /\ answers' = [answers EXCEPT !["PGStatStatements"] = Outcome(ok)]
                /\ snap' = [snap EXCEPT !.Sections["pg_stat_statements"] =
                                collectSection(QueryAnswer("PGStatStatements", ok))]
    /\ kpc' = "pg_stat_bgwriter"
    /\ UNCHANGED <<kcfg, kres, lockVars, tuneVars, switchVars, cliVars, restVars>>

\* collectStatBGWriter
CollectStatBGWriter ==
    /\ kpc = "pg_stat_bgwriter"
    /\ \E ok \in BOOLEAN :
        /\ answers' = [answers EXCEPT !["StatBGWriter"] = Outcome(ok)]
        /\ snap' = [snap EXCEPT !.Sections["pg_stat_bgwriter"] =
                                    collectSection(QueryAnswer("StatBGWriter", ok))]
    /\ kpc' = "pg_stat_wal"
    /\ UNCHANGED <<kcfg, kres, lockVars, tuneVars, switchVars, cliVars, restVars>>

\* collectStatWal, and Collect's return of the snapshot.
CollectStatWal ==
    /\ kpc = "pg_stat_wal"
    /\ IF snap.Identity.ServerVersionNum < 140000
         THEN /\ snap' = [snap EXCEPT !.Sections["pg_stat_wal"] =
                             SectionUnavailable("requires PostgreSQL 14+")]
              /\ answers' = answers
         ELSE \E ok \in BOOLEAN :
                /\ answers' = [answers EXCEPT !["StatWal"] = Outcome(ok)]
                /\ snap' = [snap EXCEPT !.Sections["pg_stat_wal"] =
                                collectSection(QueryAnswer("StatWal", ok))]
    /\ kres' = "snapshot"
    /\ kpc' = "done"
    /\ UNCHANGED <<kcfg, lockVars, tuneVars, switchVars, cliVars, restVars>>

CollectInit ==
    /\ kcfg \in { [host |-> h, port |-> p] : h \in {<<"a">>, <<"b">>}, p \in {5432, 6432} }
    /\ kpc = "start"
    /\ answers = [c \in Calls |-> "uncalled"]
    /\ snap = NoSnapshot
    /\ kres = "none"

CollectIdle ==
    /\ kcfg = [host |-> <<>>, port |-> 0]
    /\ kpc = "idle"
    /\ answers = [c \in Calls |-> "uncalled"]
    /\ snap = NoSnapshot
    /\ kres = "none"

\* ======================================================= patroni/client.go

\* The HTTP status codes a Patroni endpoint answers with.
StatusCodes == {200, 204, 404, 500, 503}

Is2xx(code) == code >= 200 /\ code < 300

\* The JSON value of a member's "lag" field: absent, a number, or a string.
LagAbsent == [kind |-> "absent", n |-> 0, s |-> ""]
LagNumber(n) == [kind |-> "number", n |-> n, s |-> ""]
LagString(s) == [kind |-> "string", n |-> 0, s |-> s]

JSONLags == {LagAbsent, LagNumber(0), LagNumber(512), LagString("unknown")}

\* A member object of a /cluster document; the lag is still a JSON value.
JSONMembers(i) ==
    { Member(MemberName(i), role, "running", lag) :
        role \in {"leader", "replica"}, lag \in JSONLags }

\* The /cluster documents: up to MaxMembers member objects.
JSONBodies ==
    UNION { { ms \in [1..k -> UNION { JSONMembers(i) : i \in 1..k }] :
                \A i \in 1..k : ms[i] \in JSONMembers(i) } : k \in 0..MaxMembers }

NoBody == <<>>

\* What httpClient.Do gives back: a transport error, or a status code and a
\* body (a body is only read after a 2xx answer to GET /cluster).
Response(err, code, body) == [err |-> err, StatusCode |-> code, Body |-> body]

Responses(call) ==
    {Response(TRUE, 0, NoBody)}
    \cup { Response(FALSE, c, NoBody) : c \in StatusCodes \ {200} }
    \cup { Response(FALSE, 200, b) :
             b \in IF call = "GetClusterStatus" THEN JSONBodies ELSE {NoBody} }

\* A (value, error) pair; err.text = "" is the nil error.
HTTPError(text, code) == [text |-> text, code |-> code]
NilError == HTTPError("", 0)
Return(value, err) == [value |-> value, err |-> err]
NoReturn == Return(<<>>, NilError)

\* encoding/json storing the "lag" value in the int64 field Member.Lag: an
\* absent field leaves the zero value, a number is stored, a string is an
\* UnmarshalTypeError.
DecodeLag(v) ==
    CASE v.kind = "absent" -> [ok |-> TRUE, Lag |-> 0]
      [] v.kind = "number" -> [ok |-> TRUE, Lag |-> v.n]
      [] v.kind = "string" -> [ok |-> FALSE, Lag |-> 0]

\* json.NewDecoder(resp.Body).Decode(&status): the members in order, an error
\* when any field could not be stored.
DecodeClusterStatus(body) ==
    [ok |-> \A i \in 1..Len(body) : DecodeLag(body[i].Lag).ok,
     Members |-> [i \in 1..Len(body) |->
                    [body[i] EXCEPT !.Lag = DecodeLag(body[i].Lag).Lag]]]

\* c.httpClient.Do(req): the request is sent and the endpoint answers.
Do ==
    /\ hpc = "start"
    /\ \E r \in Responses(hcall) : hresp' = r
    /\ hpc' = "answered"
    /\ UNCHANGED <<hcall, hret, notPatroniVars>>

\* Client.IsPrimary after Do.
IsPrimary ==
    /\ hpc = "answered"
    /\ hcall = "IsPrimary"
    /\ hret' = IF hresp.err
               THEN Return(FALSE, HTTPError("check primary", 0))
               ELSE Return(hresp.StatusCode = 200, NilError)
    /\ hpc' = "done"
    /\ UNCHANGED <<hcall, hresp, notPatroniVars>>

\* Client.GetClusterStatus after Do.
GetClusterStatus ==
    /\ hpc = "answered"
    /\ hcall = "GetClusterStatus"
    /\ hret' = IF hresp.err
               THEN Return(<<>>, HTTPError("get cluster status", 0))
               ELSE IF ~Is2xx(hresp.StatusCode)
               THEN Return(<<>>, HTTPError("patroni /cluster returned HTTP", hresp.StatusCode))
               ELSE IF ~DecodeClusterStatus(hresp.Body).ok
               THEN Return(<<>>, HTTPError("decode cluster status", 0))
               ELSE Return(DecodeClusterStatus(hresp.Body).Members, NilError)
    /\ hpc' = "done"
    /\ UNCHANGED <<hcall, hresp, notPatroniVars>>

PatroniInit ==
    /\ hcall \in {"IsPrimary", "GetClusterStatus"}
    /\ hpc = "start"
    /\ hresp = Response(FALSE, 0, NoBody)
    /\ hret = NoReturn

PatroniIdle ==
    /\ hcall = ""
    /\ hpc = "idle"
    /\ hresp = Response(FALSE, 0, NoBody)
    /\ hret = NoReturn

\* ============================ cluster registry file (load, save), concurrent

\* The processes that share one clusters.json.
RegProcs == {1, 2, 3}

\* json.MarshalIndent of a name-to-entry map: the keys in sorted order between
\* braces; the file's bytes are modelled as this sequence of tokens.
SortedNames == <<"ext", "mgd">>

MarshalIndent(entries) ==
    <<"{">> \o SelectSeq(SortedNames, LAMBDA n : n \in entries) \o <<"}">>

\* Registry.load on what os.ReadFile returned: a missing file and an empty
\* file are the empty map, anything that is not one JSON object is an error.
load(file) ==
    IF ~file.exists \/ file.data = <<>> THEN [ok |-> TRUE, entries |-> {}]
    ELSE IF \E S \in SUBSET ClusterNames : file.data = MarshalIndent(S)
        THEN [ok |-> TRUE,
              entries |-> CHOOSE S \in SUBSET ClusterNames : file.data = MarshalIndent(S)]
    ELSE [ok |-> FALSE, entries |-> {}]

\* A write of data at offset 0 of a file that holds old: bytes of old past
\* the end of data stay.
WriteAt0(old, data) ==
    data \o SubSeq(old, Len(data) + 1, Len(old))

RegistryOps ==
    { [fn |-> f, name |-> n] : f \in {"Add", "Remove", "Get"}, n \in ClusterNames }

NoResult == [kind |-> "none", entries |-> {}]

\* Registry.Add, Remove and Get up to the return of r.load(), and what
\* follows it short of r.save().
RegistryRead(p) ==
    /\ rpc[p] = "start"
    /\ LET l == load(rfile) IN
       IF ~l.ok
         THEN /\ rret' = [rret EXCEPT ![p] = [kind |-> "parse_error", entries |-> {}]]
              /\ rpc' = [rpc EXCEPT ![p] = "done"]
              /\ UNCHANGED <<rbuf, rsaved>>
       ELSE IF rop[p].fn = "Get"
         THEN /\ rret' = [rret EXCEPT ![p] =
                            [kind |-> IF rop[p].name \in l.entries THEN "found" ELSE "not_found",
                             entries |-> l.entries]]
              /\ rpc' = [rpc EXCEPT ![p] = "done"]
              /\ UNCHANGED <<rbuf, rsaved>>
       ELSE IF rop[p].fn = "Remove" /\ rop[p].name \notin l.entries
         THEN /\ rret' = [rret EXCEPT ![p] = [kind |-> "not_found", entries |-> l.entries]]
              /\ rpc' = [rpc EXCEPT ![p] = "done"]
              /\ UNCHANGED <<rbuf, rsaved>>
       ELSE LET new == IF rop[p].fn = "Add" THEN l.entries \cup {rop[p].name}
                       ELSE l.entries \ {rop[p].name}
            IN  /\ rbuf' = [rbuf EXCEPT ![p] = new]
                /\ rsaved' = rsaved \cup {new}
                /\ rpc' = [rpc EXCEPT ![p] = "save"]
                /\ rret' = rret
    /\ UNCHANGED <<rfile, rop, notRegVars>>

\* r.save, os.WriteFile's OpenFile(O_WRONLY|O_CREATE|O_TRUNC): the file
\* exists and is empty.
SaveOpen(p) ==
    /\ rpc[p] = "save"
    /\ rfile' = [exists |-> TRUE, data |-> <<>>]
    /\ rpc' = [rpc EXCEPT ![p] = "opened"]
    /\ UNCHANGED <<rop, rbuf, rret, rsaved, notRegVars>>

\* r.save, os.WriteFile's Write and Close: the marshalled map goes to offset
\* 0 of whatever the file holds by now; Add or Remove returns nil.
SaveWrite(p) ==
    /\ rpc[p] = "opened"
    /\ rfile' = [exists |-> TRUE, data |-> WriteAt0(rfile.data, MarshalIndent(rbuf[p]))]
    /\ rret' = [rret EXCEPT ![p] = [kind |-> "ok", entries |-> rbuf[p]]]
    /\ rpc' = [rpc EXCEPT ![p] = "done"]
    /\ UNCHANGED <<rop, rbuf, rsaved, notRegVars>>

RegistryInit ==
    /\ \E S \in SUBSET ClusterNames :
          /\ rfile \in { [exists |-> FALSE, data |-> <<>>],
                         [exists |-> TRUE, data |-> MarshalIndent(S)] }
          /\ rsaved = {load(rfile).entries}
    /\ rop \in [RegProcs -> RegistryOps]
    /\ rpc = [p \in RegProcs |-> "start"]
    /\ rbuf = [p \in RegProcs |-> {}]
    /\ rret = [p \in RegProcs |-> NoResult]

RegistryIdle ==
    /\ rfile = [exists |-> FALSE, data |-> <<>>]
    /\ rsaved = {{}}
    /\ rop = [p \in RegProcs |-> [fn |-> "", name |-> NoCluster]]
    /\ rpc = [p \in RegProcs |-> "idle"]
    /\ rbuf = [p \in RegProcs |-> {}]
    /\ rret = [p \in RegProcs |-> NoResult]

\* ========================================================== specifications

RestIdle == PatroniIdle /\ RegistryIdle


InitLock == LockInit /\ TuneIdle /\ SwitchIdle /\ CliIdle /\ CollectIdle /\ RestIdle

NextLock ==
    \/ \E p \in Procs : AcquireCheck(p)
    \/ \E p \in Procs : AcquireOpen(p)
    \/ \E p \in Procs : AcquireWrite(p)
    \/ \E p \in Procs : ReleaseLock(p)
    \/ \E p \in Procs : Crash(p)

SpecLock == InitLock /\ [][NextLock]_vars

\* The worker is one sequential process: it is inside at most one call.
WorkerBetweenCalls == tpc \in {"idle", "done"}

InitApply == LockInit /\ TuneInit /\ SwitchIdle /\ CliIdle /\ CollectIdle /\ RestIdle

NextApply ==
    \/ \E op \in {"dryrun", "apply", "rollback"} : TuneStart(op)
    \/ DryRunStep
    \/ DryRunReturn
    \/ ApplyStep
    \/ ApplyFinish
    \/ RollbackStep
    \/ RollbackFinish
    \/ WorkerBetweenCalls /\ AcquireCheck(Worker)
    \/ WorkerBetweenCalls /\ AcquireOpen(Worker)
    \/ WorkerBetweenCalls /\ AcquireWrite(Worker)
    \/ WorkerBetweenCalls /\ ReleaseLock(Worker)

SpecApply == InitApply /\ [][NextApply]_vars

InitSwitch == LockIdle /\ TuneIdle /\ SwitchInit /\ CliIdle /\ CollectIdle /\ RestIdle

NextSwitch ==
    \/ FailoverTriggerStart
    \/ ReplicaPromoteStart
    \/ RunSwitchover
    \/ ReplicaPromote
    \/ PostReply

SpecSwitch == InitSwitch /\ [][NextSwitch]_vars

InitCluster == LockIdle /\ TuneIdle /\ SwitchIdle /\ CliInit /\ CollectIdle /\ RestIdle

NextCluster ==
    \/ PersistentPreRun
    \/ ClusterStatusStart
    \/ ClusterStatusReply
    \/ ClusterDestroy
    \/ Execute

SpecCluster == InitCluster /\ [][NextCluster]_vars

InitCollect == LockIdle /\ TuneIdle /\ SwitchIdle /\ CliIdle /\ CollectInit /\ RestIdle

NextCollect ==
    \/ CollectIdentity
    \/ CollectPrereqs
    \/ CollectPGSettings
    \/ CollectPGStatActivity
    \/ CollectPGStatStatements
    \/ CollectStatBGWriter
    \/ CollectStatWal

SpecCollect == InitCollect /\ [][NextCollect]_vars

InitPatroni ==
    LockIdle /\ TuneIdle /\ SwitchIdle /\ CliIdle /\ CollectIdle /\ PatroniInit /\ RegistryIdle

NextPatroni ==
    \/ Do
    \/ IsPrimary
    \/ GetClusterStatus

SpecPatroni == InitPatroni /\ [][NextPatroni]_vars

InitRegistry ==
    LockIdle /\ TuneIdle /\ SwitchIdle /\ CliIdle /\ CollectIdle /\ PatroniIdle /\ RegistryInit

NextRegistry ==
    \/ \E p \in RegProcs : RegistryRead(p)
    \/ \E p \in RegProcs : SaveOpen(p)
    \/ \E p \in RegProcs : SaveWrite(p)

SpecRegistry == InitRegistry /\ [][NextRegistry]_vars

InitRoundTrip == LockIdle /\ RoundTripInit /\ SwitchIdle /\ CliIdle /\ CollectIdle /\ RestIdle

NextRoundTrip ==
    \/ TuneStart("apply")
    \/ ApplyStep
    \/ ApplyFinish
    \/ RollbackAfterApply
    \/ RollbackStep
    \/ RollbackFinish

SpecRoundTrip == InitRoundTrip /\ [][NextRoundTrip]_vars

\* ============================================================== properties

\* ---------------------------------------------------------------------- C1
\* C1: at most one holder owns the apply lock of a fingerprint at any time:
\* between two consecutive releases at most one AcquireLock call returns
\* success, whatever the interleaving of the callers' check and write steps,
\* so at most one process is inside its apply or rollback.
C1_AtMostOneHolder ==
    /\ okSinceRelease <= 1
    /\ Len(holders) <= 1

\* ---------------------------------------------------------------------- C2
IsMutation(call) == call.fn \in {"AlterSystem", "AlterSystemReset", "ReloadConf"}

WorkerHoldsLock ==
    /\ holders = <<Worker>>
    /\ lockFile = FileWith(MarshalLock(ApplyLockOf(Worker)))

\* C2: Apply and Rollback mutate the database only while the invoking
\* process holds the apply lock: every ALTER SYSTEM SET / RESET and every
\* reload is issued in a state where the process has acquired the lock and
\* has not yet released it.
C2_MutationOnlyUnderLock ==
    [][(Len(calls') > Len(calls) /\ IsMutation(calls'[Len(calls')]))
          => WorkerHoldsLock]_vars

\* ---------------------------------------------------------------------- C3
NoPrimaryIn(st) == \A i \in 1..Len(st.Members) : st.Members[i].Role \notin {"leader", "master"}

\* The candidate is no member, or is the primary, or is not running, or lags
\* by more than the threshold.
BadCandidate(st, candidate, maxLag) ==
    /\ candidate # NoName
    /\ \/ \A i \in 1..Len(st.Members) : st.Members[i].Name # candidate
       \/ \E i \in 1..Len(st.Members) :
            /\ st.Members[i].Name = candidate
            /\ \/ st.Members[i].Role \in {"leader", "master"}
               \/ st.Members[i].State # "running"
               \/ st.Members[i].Lag > maxLag

NoPostSent == \A i \in 1..Len(requests) : requests[i].method # "POST"

\* C3: when the status read from Patroni has no primary, or the candidate
\* lags by more than the threshold, is the primary, is not running or is not
\* a member, 'failover trigger' without --force and 'replica promote' end
\* with a failure envelope and send no POST to Patroni.
C3_FailedPrecheckSendsNoPost ==
    (/\ status.ok
     /\ ~inv.force
     /\ NoPrimaryIn(status) \/ BadCandidate(status, inv.candidate, 10 * 1024 * 1024))
    =>
    (/\ spc = "done"
     /\ out.stream = "stderr"
     /\ ~out.success
     /\ out.command = inv.cmd
     /\ NoPostSent)

\* A healthy cluster whose named candidate is a running replica one byte
\* over the threshold has been refused.
C3_Witness ==
    /\ spc = "done"
    /\ status.ok
    /\ ~NoPrimaryIn(status)
    /\ \E i \in 1..Len(status.Members) :
        /\ status.Members[i].Name = inv.candidate
        /\ status.Members[i].Role = "replica"
        /\ status.Members[i].State = "running"
        /\ status.Members[i].Lag = 10 * 1024 * 1024 + 1
    /\ ~out.success
    /\ NoPostSent

\* ---------------------------------------------------------------------- C4
\* C4: a paused cluster refuses promotions: when the status read from
\* Patroni has its paused flag set, no POST /switchover is sent by
\* 'failover trigger' or 'replica promote'.
C4_PausedSendsNoSwitchover ==
    (status.ok /\ status.Pause)
    => \A i \in 1..Len(requests) :
          ~(requests[i].method = "POST" /\ requests[i].path = "/switchover")

\* ---------------------------------------------------------------------- C5
ApplyReturned == tres.op = "apply" /\ tpc = "done"

\* The ALTER SYSTEM SET of every parameter has been carried out.
AllAltered ==
    \A i \in 1..Len(cs.Parameters) :
        /\ i <= Len(calls)
        /\ calls[i] = [fn |-> "AlterSystem", name |-> cs.Parameters[i].Name,
                       value |-> cs.Parameters[i].NewValue, ok |-> TRUE]

ReloadRequired ==
    \E i \in 1..Len(cs.Parameters) :
        ~cs.Parameters[i].NeedsRestart /\ cs.Parameters[i].Context # "postmaster"

ReloadSucceeded ==
    \E i \in 1..Len(calls) : calls[i].fn = "ReloadConf" /\ calls[i].ok

\* C5 as claimed: after Apply returns on a change-set that had no
\* applied-at, applied-at is set if and only if the ALTER SYSTEM SET of every
\* parameter has been carried out.
C5_AppliedAtIffAllAltered ==
    (ApplyReturned /\ cs.AppliedAt # "old")
    => ((cs.AppliedAt # "nil") <=> AllAltered)

\* C5 as amended: after Apply returns, it has set applied-at if and only if
\* it returned no error, which is if and only if the ALTER SYSTEM SET of
\* every parameter has been carried out and the reload those parameters
\* require, if any, succeeded; otherwise applied-at is as it was.
C5_AppliedAtIffApplySucceeded ==
    ApplyReturned
    => /\ (cs.AppliedAt = "now") <=> (AllAltered /\ (ReloadRequired => ReloadSucceeded))
       /\ (cs.AppliedAt = "now") <=> (tres.err.kind = "none")

\* Every statement of a non-empty change-set succeeded, the reload failed,
\* and the change-set has no applied-at.
C5_Witness ==
    /\ ApplyReturned
    /\ Len(cs.Parameters) >= 2
    /\ AllAltered
    /\ tres.err.kind = "reload"
    /\ cs.AppliedAt = "nil"

\* ---------------------------------------------------------------------- C6
\* C6: Apply is sequential and stops at the first failing ALTER SYSTEM SET
\* without rolling back: the statements of the parameters before the failing
\* one were issued in order and succeeded and their values remain in force
\* (the last one written, when a name repeats), nothing is issued after the
\* failing statement, no reload is issued, and the error names the failing
\* parameter.
C6_AbortAtFirstFailure ==
    (ApplyReturned /\ tres.err.kind = "alter")
    => LET k == Len(calls)
           ps == cs.Parameters
       IN  /\ k \in 1..Len(ps)
           /\ \A i \in 1..(k - 1) :
                /\ calls[i] = [fn |-> "AlterSystem", name |-> ps[i].Name,
                               value |-> ps[i].NewValue, ok |-> TRUE]
                /\ (\A j \in (i + 1)..(k - 1) : ps[j].Name # ps[i].Name)
                      => conf[ps[i].Name] = [set |-> TRUE, value |-> ps[i].NewValue]
           /\ calls[k] = [fn |-> "AlterSystem", name |-> ps[k].Name,
                          value |-> ps[k].NewValue, ok |-> FALSE]
           /\ tres.err.name = ps[k].Name
           /\ tres.err.value = ps[k].NewValue
           /\ cs.AppliedAt # "now"

\* The second of three statements failed, on a parameter other than the
\* first one.
C6_Witness ==
    /\ ApplyReturned
    /\ tres.err.kind = "alter"
    /\ Len(cs.Parameters) = 3
    /\ Len(calls) = 2
    /\ cs.Parameters[1].Name # cs.Parameters[2].Name
    /\ conf[cs.Parameters[1].Name].set

\* ---------------------------------------------------------------------- C7
\* C7: a successful Apply issues ReloadConf exactly once, as its last call
\* and after the ALTER SYSTEM SET of every parameter has succeeded, when some
\* parameter is neither restart-flagged nor of context postmaster; otherwise
\* it issues no ReloadConf.
C7_ReloadOnceIfRequired ==
    (ApplyReturned /\ tres.err.kind = "none")
    => LET n == Len(cs.Parameters)
           reloads == { i \in 1..Len(calls) : calls[i].fn = "ReloadConf" }
       IN  /\ \A i \in 1..n : i <= Len(calls) /\ calls[i].fn = "AlterSystem" /\ calls[i].ok
           /\ IF \E i \in 1..n : ~cs.Parameters[i].NeedsRestart
                                 /\ cs.Parameters[i].Context # "postmaster"
                THEN Len(calls) = n + 1 /\ reloads = {n + 1}
                ELSE Len(calls) = n /\ reloads = {}

\* A successful Apply of a restart-flagged sighup parameter and a postmaster
\* parameter issued no reload.
C7_Witness ==
    /\ ApplyReturned
    /\ tres.err.kind = "none"
    /\ Len(cs.Parameters) = 2
    /\ cs.Parameters[1].Context = "sighup"
    /\ cs.Parameters[1].NeedsRestart
    /\ cs.Parameters[2].Context = "postmaster"
    /\ Len(calls) = 2

\* ---------------------------------------------------------------------- C8
\* v is s without its leading and trailing white space.
IsTrimOf(v, s) ==
    /\ \E a \in 0..Len(s) : \E b \in a..Len(s) :
        /\ v = SubSeq(s, a + 1, b)
        /\ \A i \in 1..a : s[i] \in {" ", "\t", "\n", "\r"}
        /\ \A i \in (b + 1)..Len(s) : s[i] \in {" ", "\t", "\n", "\r"}
    /\ v # <<>> => /\ v[1] \notin {" ", "\t", "\n", "\r"}
                   /\ v[Len(v)] \notin {" ", "\t", "\n", "\r"}

\* The statements Rollback has issued, one per parameter, in order.
RollbackStatements == { i \in 1..Len(calls) : calls[i].fn # "ReloadConf" }

\* C8 as claimed: Rollback issues ALTER SYSTEM RESET <name> exactly when
\* the recorded oldValue is the empty string, and otherwise ALTER SYSTEM SET
\* <name> = <oldValue> with oldValue passed unchanged.
C8_ResetIffEmptyElseOldValue ==
    tres.op = "rollback"
    => \A i \in RollbackStatements :
          /\ calls[i].name = cs.Parameters[i].Name
          /\ IF cs.Parameters[i].OldValue = <<>>
               THEN calls[i].fn = "AlterSystemReset"
               ELSE /\ calls[i].fn = "AlterSystem"
                    /\ calls[i].value = cs.Parameters[i].OldValue

\* C8 as amended: Rollback issues ALTER SYSTEM RESET <name> exactly when
\* the recorded oldValue is empty once its leading and trailing white space
\* is removed, and otherwise ALTER SYSTEM SET <name> = <oldValue without its
\* leading and trailing white space>.
C8_ResetIffBlankElseTrimmed ==
    tres.op = "rollback"
    => \A i \in RollbackStatements :
          /\ i <= Len(cs.Parameters)
          /\ calls[i].name = cs.Parameters[i].Name
          /\ IF IsTrimOf(<<>>, cs.Parameters[i].OldValue)
               THEN calls[i].fn = "AlterSystemReset"
               ELSE /\ calls[i].fn = "AlterSystem"
                    /\ IsTrimOf(calls[i].value, cs.Parameters[i].OldValue)

\* A rollback has reset a parameter whose old value is one space and has set
\* another to " 4MB " without the spaces.
C8_Witness ==
    /\ tres.op = "rollback"
    /\ \E i \in RollbackStatements :
        /\ cs.Parameters[i].OldValue = <<" ">>
        /\ calls[i].fn = "AlterSystemReset"
    /\ \E i \in RollbackStatements :
        /\ cs.Parameters[i].OldValue = <<" ", "4", "M", "B", " ">>
        /\ calls[i].fn = "AlterSystem"
        /\ calls[i].value = <<"4", "M", "B">>

\* ---------------------------------------------------------------------- C9
\* C9: DryRun never mutates state: whatever the change-set and whatever the
\* database answers, the only ApplyDB call it makes is GetSetting, the
\* server's configuration stays as it was, and the change-set (parameters,
\* applied-at, rolled-back-at) is not modified.
C9_DryRunMutatesNothing ==
    /\ [](tres.op = "dryrun"
            => \A i \in 1..Len(calls) : calls[i].fn = "GetSetting")
    /\ [][(tpc = "dryrun") => (cs' = cs /\ conf' = conf)]_vars

\* A dry run over three parameters has returned not-OK with a warning.
C9_Witness ==
    /\ tres.op = "dryrun"
    /\ tpc = "done"
    /\ Len(cs.Parameters) = 3
    /\ Len(calls) >= 2
    /\ ~tres.dry.OK
    /\ tres.dry.Warnings # <<>>

\* --------------------------------------------------------------------- C10
\* C10: when the lock file holds the record of a holder, AcquireLock by a
\* different holder fails with a contention error that names the pid, the
\* change-set id, the operation and the start time of the record found, and
\* it neither touches the file nor makes the caller a holder.
C10_ContentionNamesHolder ==
    [][\A q \in Procs :
          (/\ AcquireCheck(q)
           /\ dirExists
           /\ lockFile.exists
           /\ lockFile.data # <<>>
           /\ lockFile.data[1].pid # ApplyLockOf(q).PID)
          =>
          (/\ lastRet' = [proc |-> q, kind |-> "contention",
                          operation |-> lockFile.data[1].operation,
                          changeset |-> lockFile.data[1].changeset_id,
                          pid |-> lockFile.data[1].pid,
                          started |-> lockFile.data[1].started_at.sec]
           /\ lockFile' = lockFile
           /\ holders' = holders
           /\ lpc'[q] = "idle")]_vars

\* A second caller has been turned away by the sole holder's lock.
C10_Witness ==
    /\ lastRet.kind = "contention"
    /\ Len(holders) = 1
    /\ lastRet.proc # holders[1]
    /\ lastRet.pid = ApplyLockOf(holders[1]).PID
    /\ lastRet.changeset = ApplyLockOf(holders[1]).ChangeSetID
    /\ lockFile = FileWith(MarshalLock(ApplyLockOf(holders[1])))

\* --------------------------------------------------------------------- C11
\* C11: AcquireLock succeeds and writes the lock record whenever it finds no
\* lock file for the fingerprint, also on first use when the fingerprint's
\* directory does not exist yet; once a call that is not overtaken by a
\* release has succeeded, CheckLock returns the record it wrote.
C11_AcquireSucceedsWithoutLockFile ==
    [][\A p \in Procs :
          /\ AcquireOpen(p) => lpc'[p] = "opened"
          /\ (AcquireWrite(p) /\ lpc[p] = "opened")
                => /\ lastRet' = Ret(p, "ok")
                   /\ CheckLock(lockFile') = [result |-> "lock", lock |-> ApplyLockOf(p)]]_vars

\* --------------------------------------------------------------------- C12
\* The pre-check of the command passed: it went on to POST /switchover.
PrecheckPassed == status.ok /\ ~inv.force /\ ~NoPostSent

RunningNonPrimary(m) == m.Role \notin {"leader", "master"} /\ m.State = "running"

CandidateAtLag(st, candidate, lag) ==
    \E i \in 1..Len(st.Members) :
        /\ st.Members[i].Name = candidate
        /\ RunningNonPrimary(st.Members[i])
        /\ st.Members[i].Lag = lag

CandidateWithin(st, candidate, maxLag) ==
    \E i \in 1..Len(st.Members) :
        /\ st.Members[i].Name = candidate
        /\ RunningNonPrimary(st.Members[i])
        /\ st.Members[i].Lag <= maxLag

\* C12: CheckSwitchover succeeds only if a primary exists and either the
\* non-empty candidate names a running non-primary member whose lag does not
\* exceed the threshold, or the candidate is empty and some running
\* non-primary member exists; with the default threshold a candidate whose
\* lag equals the threshold is accepted and one that exceeds it by one byte
\* is rejected.
C12_CheckSwitchoverOnlyIfSafe ==
    (status.ok /\ ~inv.force)
    => /\ PrecheckPassed
            => /\ ~NoPrimaryIn(status)
               /\ IF inv.candidate # NoName
                    THEN CandidateWithin(status, inv.candidate, 10 * 1024 * 1024)
                    ELSE \E i \in 1..Len(status.Members) :
                            RunningNonPrimary(status.Members[i])
       /\ (~NoPrimaryIn(status) /\ CandidateAtLag(status, inv.candidate, 10 * 1024 * 1024))
            => PrecheckPassed
       /\ CandidateAtLag(status, inv.candidate, 10 * 1024 * 1024 + 1)
            => ~PrecheckPassed

\* A candidate whose lag is exactly the threshold has passed the pre-check.
C12_Witness ==
    /\ PrecheckPassed
    /\ CandidateAtLag(status, inv.candidate, 10 * 1024 * 1024)

\* --------------------------------------------------------------------- C13
\* Member i of the list is the running non-primary member of smallest lag
\* that comes first in the list.
IsBestCandidate(ms, i) ==
    /\ RunningNonPrimary(ms[i])
    /\ \A j \in 1..Len(ms) :
          RunningNonPrimary(ms[j])
          => \/ ms[i].Lag < ms[j].Lag
             \/ ms[i].Lag = ms[j].Lag /\ i <= j

\* The command chose the switchover target itself.
TargetAutoSelected ==
    /\ inv.cmd = "failover trigger"
    /\ PrecheckPassed
    /\ inv.candidate = NoName

\* C13: FindBestCandidate returns the running non-primary member with the
\* smallest lag, the first such member of the list on a tie; a member that
\* is not running is never returned whatever its lag; and the call fails
\* exactly when the list has no running non-primary member. The target of
\* a switchover without --candidate is that member.
C13_BestCandidateIsFirstSmallestLag ==
    status.ok
    => LET ms == status.Members
           best == FindBestCandidate(status)
       IN  /\ best.ok <=> \E i \in 1..Len(ms) : RunningNonPrimary(ms[i])
           /\ best.ok => \E i \in 1..Len(ms) :
                            ms[i].Name = best.name /\ IsBestCandidate(ms, i)
           /\ TargetAutoSelected
                => \E k \in 1..Len(requests) : \E i \in 1..Len(ms) :
                      /\ requests[k].method = "POST"
                      /\ requests[k].candidate = ms[i].Name
                      /\ IsBestCandidate(ms, i)

\* The target chosen is a lagging running replica that comes after a stopped
\* replica of smaller recorded lag.
C13_Witness ==
    /\ TargetAutoSelected
    /\ Len(status.Members) = 3
    /\ status.Members[1].Role = "replica"
    /\ status.Members[1].State = "stopped"
    /\ status.Members[1].Lag = 0
    /\ status.Members[3].Lag = 10 * 1024 * 1024
    /\ requests[Len(requests)].candidate = status.Members[3].Name

\* --------------------------------------------------------------------- C14
ForceWithoutCandidate ==
    /\ inv.cmd = "failover trigger"
    /\ inv.force
    /\ inv.candidate = NoName

MentionsCandidate(err) ==
    err \in {"--candidate is required when using --force", "--candidate is required"}

\* C14 as claimed: 'failover trigger --force' without a candidate sends no
\* HTTP request to Patroni and ends with a failure envelope whose error
\* mentions the candidate.
C14_ForceWithoutCandidateNamesCandidate ==
    ForceWithoutCandidate
    => /\ requests = <<>>
       /\ spc = "done" => /\ out.stream = "stderr"
                          /\ ~out.success
                          /\ MentionsCandidate(out.error)

\* C14 as amended: 'failover trigger --force' without a candidate sends no
\* HTTP request to Patroni and ends with a failure envelope; the error
\* mentions the candidate when the Patroni URL could be resolved, and is the
\* URL resolution error otherwise, because the URL is resolved first.
C14_ForceWithoutCandidateSendsNothing ==
    ForceWithoutCandidate
    => /\ requests = <<>>
       /\ spc \in {"start", "done"}
       /\ spc = "done" => /\ out.stream = "stderr"
                          /\ ~out.success
                          /\ out.command = "failover trigger"
                          /\ inv.urlOK => MentionsCandidate(out.error)
                          /\ ~inv.urlOK => ~MentionsCandidate(out.error)

\* A forced failover without candidate, Patroni URL given, has been refused.
C14_Witness ==
    /\ ForceWithoutCandidate
    /\ inv.urlOK
    /\ spc = "done"
    /\ MentionsCandidate(out.error)
    /\ requests = <<>>

\* --------------------------------------------------------------------- C15
\* 'cluster status' has written its success envelope for the status read.
StatusReported ==
    /\ cli.cmd = "cluster status"
    /\ status.ok
    /\ stdout # <<>>

PrimaryMembers(st) ==
    { i \in 1..Len(st.Members) : st.Members[i].Role \in {"leader", "master"} }

\* C15: every role-comparing site takes both 'leader' and 'master' for the
\* primary: for a cluster with one such member, FindPrimary returns its name,
\* ListReplicas leaves it out, and 'cluster status' reports it as primary and
\* counts only the other members as replicas.
C15_LeaderAndMasterArePrimary ==
    (StatusReported /\ Cardinality(PrimaryMembers(status)) = 1)
    => LET p == CHOOSE i \in PrimaryMembers(status) : TRUE
           n == Len(status.Members)
       IN  /\ FindPrimary(status) = [ok |-> TRUE, name |-> status.Members[p].Name]
           /\ Len(ListReplicas(status)) = n - 1
           /\ stdout[1].data.primary = status.Members[p].Name
           /\ stdout[1].data.replica_count = n - 1

\* --------------------------------------------------------------------- C16
\* 'cluster destroy --confirm' names a record whose source is external.
DestroyOfExternal ==
    /\ cli.cmd = "cluster destroy"
    /\ cli.confirm
    /\ registry.state = "ok"
    /\ cli.name \in ClusterNames
    /\ registry.entries[cli.name] = "external"

\* The global flags and the configuration were accepted, so the command's
\* handler runs.
HandlerRuns == cli.format \in ValidFormats /\ cli.cfgOK

\* C16: 'cluster destroy --confirm' on a registry record whose source is
\* external fails: it writes nothing to stdout, exits with 1, and the failure
\* envelope the command writes carries an error that mentions the cluster
\* name; the registry file is never changed, so the record is still there.
C16_DestroyRefusesExternal ==
    /\ [](DestroyOfExternal
            => /\ stdout = <<>>
               /\ cpc = "exited" => exitCode = 1
               /\ (HandlerRuns /\ cpc \in {"returned", "exited"})
                    => /\ stderr[1].kind = "envelope"
                       /\ ~stderr[1].success
                       /\ stderr[1].command = "cluster destroy"
                       /\ stderr[1].error.arg = cli.name)
    /\ [][DestroyOfExternal => (registry' = registry /\ DestroyOfExternal')]_vars

\* The destroy of an external record has been refused beside a managed one.
C16_Witness ==
    /\ DestroyOfExternal
    /\ HandlerRuns
    /\ cpc = "exited"
    /\ exitCode = 1
    /\ stderr[1].error.arg = cli.name
    /\ \E n \in ClusterNames : registry.entries[n] = "managed"

\* --------------------------------------------------------------------- C17
\* C17: every invocation, whatever stage it fails at, writes exactly one
\* response envelope and nothing else: a success envelope on stdout with exit
\* code 0, or a failure envelope on stderr with exit code 1.
C17_ExactlyOneEnvelope ==
    cpc = "exited"
    => \/ /\ exitCode = 0
          /\ Len(stdout) = 1
          /\ stdout[1].kind = "envelope"
          /\ stdout[1].success
          /\ stderr = <<>>
       \/ /\ exitCode = 1
          /\ stdout = <<>>
          /\ Len(stderr) = 1
          /\ stderr[1].kind = "envelope"
          /\ ~stderr[1].success

\* --------------------------------------------------------------------- C18
CollectReturned == kpc = "done"

\* C18: Collect fails if and only if the read of server_version_num fails:
\* whenever that read succeeds a snapshot is returned whose identity has a
\* tier and a fingerprint computed from it, whatever the other database
\* calls answered.
C18_CollectFailsIffVersionFails ==
    /\ kres = "error" => answers["ServerVersionNum"] = "error"
    /\ CollectReturned
        => /\ (kres = "error") <=> (answers["ServerVersionNum"] = "error")
           /\ (kres = "snapshot") <=> (answers["ServerVersionNum"] = "ok")
           /\ kres = "snapshot"
                => /\ snap.Identity.Tier \in {0, 1, 2}
                   /\ snap.Identity.Fingerprint # NoFingerprint
                   /\ snap.Identity.Fingerprint = ComputeFingerprint(snap.Identity)

\* A snapshot has been returned by a PostgreSQL 14 server on which every
\* call after the version read failed.
C18_Witness ==
    /\ CollectReturned
    /\ kres = "snapshot"
    /\ snap.Identity.ServerVersionNum = 140000
    /\ \A c \in Calls \ {"ServerVersionNum", "PGStatStatements"} : answers[c] = "error"
    /\ snap.Identity.Tier = 2

\* --------------------------------------------------------------------- C19
\* The query behind each data section.
QueryOf(section) ==
    CASE section = "pg_settings" -> "PGSettings"
      [] section = "pg_stat_activity" -> "PGStatActivity"
      [] section = "pg_stat_statements" -> "PGStatStatements"
      [] section = "pg_stat_bgwriter" -> "StatBGWriter"
      [] section = "pg_stat_wal" -> "StatWal"

DataSections == SectionNames \ {"prereqs"}

\* C19: every returned snapshot holds an entry for each of the six sections,
\* prereqs being available; a data section whose query failed is unavailable
\* with that query's error message, one whose query succeeded is available
\* with its rows, and one whose query was not sent (prerequisite or version
\* gate) is unavailable; so the entry of a section depends on its own query
\* alone and is the same whatever the other sections' queries answered.
C19_SectionFailuresAreIsolated ==
    kres = "snapshot"
    => /\ \A s \in SectionNames : snap.Sections[s].present
       /\ snap.Sections["prereqs"] = SectionAvailable("prereqs")
       /\ \A s \in DataSections :
            LET q == QueryOf(s) IN
            /\ answers[q] = "error" => snap.Sections[s] = SectionUnavailable(q)
            /\ answers[q] = "ok" => snap.Sections[s] = SectionAvailable(q)
            /\ answers[q] = "uncalled"
                 => /\ ~snap.Sections[s].Available
                    /\ snap.Sections[s].Error \in
                         {"pg_stat_statements extension not loaded", "requires PostgreSQL 14+"}

\* In a returned snapshot the pg_settings query failed alone.
C19_Witness ==
    /\ kres = "snapshot"
    /\ answers["PGSettings"] = "error"
    /\ ~snap.Sections["pg_settings"].Available
    /\ \A s \in DataSections \ {"pg_settings"} :
          answers[QueryOf(s)] = "ok" /\ snap.Sections[s].Available

\* --------------------------------------------------------------------- C20
IdentityComputed == kpc \notin {"idle", "start"} /\ kres # "error"

\* The identity with other configured host and port.
WithConfig(id, host, port) == [id EXCEPT !.ConfigHost = host, !.ConfigPort = port]

\* C20: the fingerprint depends only on the chosen tier's components: a
\* tier-0 identity (same system_identifier) and a tier-1 identity (same
\* resolved address, port and datid) keep their fingerprint whatever the
\* configured host and port are, and a tier-1 identity that differs in the
\* resolved port alone has a different fingerprint.
C20_FingerprintOfTierComponents ==
    IdentityComputed
    => LET id == snap.Identity IN
       /\ id.Tier \in {TierSystemIdentifier, TierResolvedAddr}
            => \A h \in {<<"a">>, <<"b">>, <<"h">>}, p \in {5432, 5433, 6432} :
                  ComputeFingerprint(WithConfig(id, h, p)) = id.Fingerprint
       /\ id.Tier = TierResolvedAddr
            => \A rp \in {5432, 5433, 6432} \ {id.ResolvedPort} :
                  ComputeFingerprint([id EXCEPT !.ResolvedPort = rp]) # id.Fingerprint

\* A tier-1 identity whose resolved port is not the configured one.
C20_Witness ==
    /\ IdentityComputed
    /\ snap.Identity.Tier = TierResolvedAddr
    /\ snap.Identity.ResolvedPort = 5433
    /\ snap.Identity.ConfigPort = 5432
    /\ kres = "snapshot"

\* --------------------------------------------------------------------- C21
IsPrimaryAnswered == hcall = "IsPrimary" /\ hpc = "done" /\ ~hresp.err

\* C21: IsPrimary returns (true, nil) for HTTP 200, (false, nil) for HTTP 404
\* and 503, and a non-nil error for every other non-2xx status.
C21_IsPrimaryByStatus ==
    IsPrimaryAnswered
    => /\ hresp.StatusCode = 200 => hret = Return(TRUE, NilError)
       /\ hresp.StatusCode \in {404, 503} => hret = Return(FALSE, NilError)
       /\ (~Is2xx(hresp.StatusCode) /\ hresp.StatusCode \notin {404, 503})
            => hret.err # NilError

\* --------------------------------------------------------------------- C22
HasStringLag(body) == \E i \in 1..Len(body) : body[i].Lag.kind = "string"

\* The lag a member object carries, the string form counting as zero.
LagOrZero(v) == IF v.kind = "number" THEN v.n ELSE 0

\* C22: a /cluster response in which a member's lag is the JSON string
\* "unknown" decodes without error, with lag 0 for that member and the
\* values of the document for all other members.
C22_StringLagDecodesAsZero ==
    ( /\ hcall = "GetClusterStatus"
      /\ hpc = "done"
      /\ ~hresp.err
      /\ hresp.StatusCode = 200
      /\ HasStringLag(hresp.Body) )
    => /\ hret.err = NilError
       /\ hret.value =
            [i \in 1..Len(hresp.Body) |->
                [hresp.Body[i] EXCEPT !.Lag = LagOrZero(hresp.Body[i].Lag)]]

\* --------------------------------------------------------------------- C23
DryRunReturned == tres.op = "dryrun" /\ tpc = "done"

\* What a dry run over ps that made the GetSetting calls cl has to report.
\* With every = TRUE all four checks are made for every parameter; with
\* every = FALSE a parameter whose permission is denied gets the permission
\* error only. match: cl holds one GetSetting call per probed parameter.
RECURSIVE DryRunExpected(_, _, _)
DryRunExpected(ps, cl, every) ==
    IF ps = <<>>
    THEN [match |-> cl = <<>>, Warnings |-> <<>>, Errors |-> <<>>]
    ELSE LET p == Head(ps)
             probed == every \/ p.Permission.Allowed
             called == probed /\ cl # <<>>
             rest == DryRunExpected(Tail(ps), IF called THEN Tail(cl) ELSE cl, every)
         IN  [match |->
                 /\ probed => /\ cl # <<>>
                              /\ Head(cl).fn = "GetSetting"
                              /\ Head(cl).name = p.Name
                 /\ rest.match,
              Warnings |->
                 (IF probed /\ p.PatroniOverride = "overridden"
                     THEN <<[param |-> p.Name, msg |-> "overridden by Patroni DCS"]>>
                     ELSE <<>>)
                 \o (IF probed /\ (p.NeedsRestart \/ p.Context = "postmaster")
                     THEN <<[param |-> p.Name, msg |-> "requires restart"]>>
                     ELSE <<>>)
                 \o rest.Warnings,
              Errors |->
                 (IF p.Permission.Allowed THEN <<>>
                     ELSE <<[param |-> p.Name, msg |-> "permission denied"]>>)
                 \o (IF called /\ ~Head(cl).ok
                     THEN <<[param |-> p.Name, msg |-> "setting not found"]>>
                     ELSE <<>>)
                 \o rest.Errors]

\* C23 as stated: DryRun makes all four checks (permission, Patroni
\* override, restart requirement, GetSetting) for every parameter change,
\* also for one whose permission check failed, and the result holds every
\* resulting warning and error.
C23_AllFourChecksForEveryParameter ==
    DryRunReturned
    => LET e == DryRunExpected(cs.Parameters, calls, TRUE) IN
       /\ e.match
       /\ tres.dry.Warnings = e.Warnings
       /\ tres.dry.Errors = e.Errors

\* C23 amended: DryRun makes the permission check for every parameter change
\* and the three other checks for every parameter whose permission check
\* passed; a denied parameter adds its permission error only and is not
\* probed with GetSetting. The result holds every resulting warning and
\* error, and is OK exactly when there is no error.
C23_OtherChecksOnlyIfPermitted ==
    DryRunReturned
    => LET e == DryRunExpected(cs.Parameters, calls, FALSE) IN
       /\ e.match
       /\ tres.dry.Warnings = e.Warnings
       /\ tres.dry.Errors = e.Errors
       /\ tres.dry.OK = (e.Errors = <<>>)

\* A dry run has returned over a denied restart-gated parameter and a
\* permitted parameter that GetSetting did not find.
C23_Witness ==
    /\ DryRunReturned
    /\ \E i \in 1..Len(cs.Parameters) :
          ~cs.Parameters[i].Permission.Allowed /\ cs.Parameters[i].NeedsRestart
    /\ \E j \in 1..Len(calls) : ~calls[j].ok
    /\ tres.dry.Warnings # <<>>
    /\ Len(tres.dry.Errors) >= 2

\* --------------------------------------------------------------------- C24
TriggerSucceeded == inv.cmd = "failover trigger" /\ spc = "done" /\ out.success

\* C24: a switchover or forced-failover command reads the cluster status
\* again (GET /cluster) after its POST /switchover or POST /failover has
\* returned and before it reports success.
C24_PostCheckBeforeSuccess ==
    TriggerSucceeded
    => \E i, j \in 1..Len(requests) :
          /\ i < j
          /\ requests[i].method = "POST"
          /\ requests[i].path \in {"/switchover", "/failover"}
          /\ requests[j].method = "GET"
          /\ requests[j].path = "/cluster"

\* --------------------------------------------------------------------- C25
\* A holder has crashed and no ReleaseLock has been called since its
\* AcquireLock returned.
StaleLock == crashed.proc # 0 /\ ~crashed.released

\* C25: the lock has no timeout and no stale-lock takeover: the record of a
\* holder that crashed without releasing stays in the file until ReleaseLock
\* is called, and every AcquireLock that starts meanwhile fails with a
\* contention error naming the crashed holder.
C25_CrashedHolderKeepsLock ==
    /\ [](StaleLock => lockFile = FileWith(MarshalLock(ApplyLockOf(crashed.proc))))
    /\ [][\A q \in Procs :
            (StaleLock /\ AcquireCheck(q))
            => /\ lastRet'.proc = q
               /\ lastRet'.kind = "contention"
               /\ lastRet'.pid = ApplyLockOf(crashed.proc).PID
               /\ lastRet'.changeset = ApplyLockOf(crashed.proc).ChangeSetID]_vars

\* --------------------------------------------------------------------- C26
Writers == { p \in RegProcs : rop[p].fn \in {"Add", "Remove"} }

\* C26: registry writes are atomic single-file overwrites: what a Get reads
\* while an Add or Remove runs is the complete map before that write or the
\* complete map after it, and when the concurrent writers have finished the
\* file holds exactly the complete map one of them wrote, never an empty,
\* truncated or mixed file.
C26_RegistryWritesAreAtomic ==
    /\ \A p \in RegProcs :
          (rop[p].fn = "Get" /\ rpc[p] = "done")
          => rret[p].kind # "parse_error" /\ rret[p].entries \in rsaved
    /\ ( /\ \A p \in RegProcs : rpc[p] = "done"
         /\ \E w \in Writers : rret[w].kind = "ok" )
       => \E w \in Writers :
             rret[w].kind = "ok" /\ rfile.data = MarshalIndent(rret[w].entries)

\* --------------------------------------------------------------------- C27
\* The cluster the identity queries are answered from: system identifier
\* "7", bound address "h", database OID 16384 and one of two ports.
ClusterPorts == {5432, 5433}

\* The fingerprint of that cluster when every identity probe succeeds.
ReferenceFingerprint(version, port) ==
    IF version >= 130000
    THEN ComputeFingerprint([NoIdentity EXCEPT !.Tier = TierSystemIdentifier,
                                               !.SystemIdentifier = <<"7">>])
    ELSE ComputeFingerprint([NoIdentity EXCEPT !.Tier = TierResolvedAddr,
                                               !.ResolvedAddr = <<"h">>,
                                               !.ResolvedPort = port,
                                               !.DatID = 16384])

HasReferenceFingerprint ==
    \E port \in ClusterPorts :
        /\ snap.Identity.ResolvedAddr # <<>> => snap.Identity.ResolvedPort = port
        /\ snap.Identity.Fingerprint =
              ReferenceFingerprint(snap.Identity.ServerVersionNum, port)

\* The probes of the best tier the server's version allows have succeeded.
TierProbesOK ==
    IF snap.Identity.ServerVersionNum >= 130000
    THEN answers["SystemIdentifier"] = "ok" /\ snap.Identity.SystemIdentifier # <<>>
    ELSE /\ answers["ResolvedAddr"] = "ok"
         /\ snap.Identity.ResolvedAddr # <<>>
         /\ answers["CurrentDatID"] = "ok"

\* C27 as stated: every successful Collect against the same cluster yields
\* the same fingerprint, for every combination of identity-probe outcomes.
C27_FingerprintStableForAllProbeOutcomes ==
    IdentityComputed => HasReferenceFingerprint

\* C27 amended: a Collect against the same cluster yields the cluster's
\* fingerprint exactly when the probes of the best tier for the server's
\* version succeed (the system identifier on 13 and later, else the resolved
\* address and the database OID), whatever the configured host and port and
\* the outcomes of the other probes; when they fail the identity falls to a
\* lower tier and the fingerprint is another one.
C27_FingerprintStableIffTierProbesOK ==
    IdentityComputed => (TierProbesOK <=> HasReferenceFingerprint)

\* A collection on 13 or later whose address probe failed still has the
\* cluster's fingerprint.
C27_Witness ==
    /\ kres = "snapshot"
    /\ snap.Identity.ServerVersionNum >= 130000
    /\ answers["ResolvedAddr"] = "error"
    /\ answers["CurrentDatID"] = "error"
    /\ TierProbesOK
    /\ HasReferenceFingerprint
    /\ kcfg.host = <<"b">>

\* --------------------------------------------------------------------- C28
\* 'failover trigger' has sent POST /switchover.
SwitchoverSent ==
    /\ inv.cmd = "failover trigger"
    /\ ~inv.force
    /\ \E k \in 1..Len(requests) : requests[k].path = "/switchover"

\* The member of the status read that the POST /switchover names.
SwitchoverTargets ==
    { i \in 1..Len(status.Members) :
        \E k \in 1..Len(requests) :
            /\ requests[k].path = "/switchover"
            /\ requests[k].candidate = status.Members[i].Name }

\* C28 as stated: the candidate 'failover trigger' passes to Patroni for a
\* controlled switchover is a running non-primary member whose lag is within
\* the default 10 MiB threshold in the status read, also when the target is
\* auto-selected.
C28_TargetWithinLagThreshold ==
    SwitchoverSent
    => /\ SwitchoverTargets # {}
       /\ \A i \in SwitchoverTargets :
             /\ RunningNonPrimary(status.Members[i])
             /\ status.Members[i].Lag <= DefaultMaxLagBytes

\* C28 amended: the candidate is always a running non-primary member of the
\* status read; its lag is within the 10 MiB threshold when --candidate was
\* given, while an auto-selected target is the running non-primary member of
\* smallest lag, whatever that lag is.
C28_TargetRunningNonPrimary ==
    SwitchoverSent
    => /\ SwitchoverTargets # {}
       /\ \A i \in SwitchoverTargets :
             /\ RunningNonPrimary(status.Members[i])
             /\ inv.candidate # NoName
                  => status.Members[i].Lag <= DefaultMaxLagBytes
             /\ inv.candidate = NoName
                  => \A j \in 1..Len(status.Members) :
                        RunningNonPrimary(status.Members[j])
                        => status.Members[i].Lag <= status.Members[j].Lag

\* A switchover was requested towards an auto-selected replica whose lag is
\* above the threshold, next to a stopped replica without lag.
C28_Witness ==
    /\ SwitchoverSent
    /\ inv.candidate = NoName
    /\ \E i \in SwitchoverTargets : status.Members[i].Lag > DefaultMaxLagBytes
    /\ \E j \in 1..Len(status.Members) :
          /\ status.Members[j].Role = "replica"
          /\ status.Members[j].State = "stopped"
          /\ status.Members[j].Lag = 0

\* --------------------------------------------------------------------- C29
\* Apply and then Rollback of the change-set have both returned nil.
RoundTripDone ==
    /\ tres.op = "rollback"
    /\ tpc = "done"
    /\ tres.err = NoErr
    /\ cs.AppliedAt = "now"
    /\ cs.RolledBackAt = "now"

Occurrences(name) == { i \in 1..Len(cs.Parameters) : cs.Parameters[i].Name = name }

FirstOf(S) == CHOOSE i \in S : \A j \in S : i <= j
LastOf(S) == CHOOSE i \in S : \A j \in S : i >= j

\* The setting holds the recorded value: reset when that is empty.
Holds(name, value) ==
    conf[name] = IF value = sEmpty THEN [set |-> FALSE, value |-> <<>>]
                 ELSE [set |-> TRUE, value |-> value]

\* C29 as stated: after a successful Apply and a successful Rollback of a
\* change-set whose every oldValue is the value in force just before that
\* change was applied, every parameter named has the value it had before
\* Apply (reset when that was empty), also when a name occurs more than once.
C29_RollbackRestoresPreApply ==
    RoundTripDone
    => \A n \in ParamNames :
          Occurrences(n) # {}
          => Holds(n, cs.Parameters[FirstOf(Occurrences(n))].OldValue)

\* What the round trip does leave: every parameter named has the oldValue
\* of its last change in the change-set (reset when that is empty), because
\* Rollback replays the changes in the order of Apply; this is the value
\* before Apply for every parameter that is named once.
C29_RollbackLeavesLastOldValue ==
    RoundTripDone
    => \A n \in ParamNames :
          Occurrences(n) # {}
          => /\ Holds(n, cs.Parameters[LastOf(Occurrences(n))].OldValue)
             /\ Cardinality(Occurrences(n)) = 1
                  => Holds(n, cs.Parameters[FirstOf(Occurrences(n))].OldValue)

\* A round trip over a change-set that names work_mem twice and
\* shared_buffers once has returned.
C29_Witness ==
    /\ RoundTripDone
    /\ Cardinality(Occurrences("work_mem")) = 2
    /\ Cardinality(Occurrences("shared_buffers")) = 1
    /\ cs.Parameters[FirstOf(Occurrences("shared_buffers"))].OldValue = s4MB
    /\ conf["shared_buffers"] = [set |-> TRUE, value |-> s4MB]

\* --------------------------------------------------------------------- C30
\* The file holds the record of a process other than p.
HeldByOther(p) ==
    /\ dirExists
    /\ CheckLock(lockFile).result = "lock"
    /\ CheckLock(lockFile).lock.PID # ApplyLockOf(p).PID

\* C30 as stated: ReleaseLock by a process that does not hold the lock, such
\* as one whose AcquireLock has just failed with contention, leaves the
\* holder's record in place, so CheckLock returns the same holder after it.
C30_ReleaseByNonHolderKeepsLock ==
    [][\A p \in Procs :
          (ReleaseLock(p) /\ HeldByOther(p))
          => CheckLock(lockFile') = CheckLock(lockFile)]_vars

\* What ReleaseLock does: whoever calls it, no file is left and CheckLock
\* returns nil.
C30_ReleaseRemovesAnyLock ==
    [][\A p \in Procs :
          ReleaseLock(p) => CheckLock(lockFile').result = "nil"]_vars

====
